---- MODULE Spec2Model ----
(***************************************************************************)
(* A model of the bcws peer-to-peer blockchain node (src/bcws): messaging  *)
(* dispatch, the peering overlay, gossip, distributed search, the fork     *)
(* manager, the chain canonicaliser and the block producer.                *)
(*                                                                         *)
(* Every subsystem has its own variables and its own specification.  A     *)
(* handler (_handle_send, _handle_announce, _handle_new_block, ...) is an   *)
(* action that the environment may run with any message of the bounded     *)
(* universe, as its signature (message, sender) declares; the path of a    *)
(* datagram through UDPMessaging.dispatch is modelled separately, from     *)
(* messaging.py.                                                           *)
(***************************************************************************)
EXTENDS Integers, Sequences, FiniteSets, TLC

(***************************************************************************)
(* Bounds of the model.                                                    *)
(***************************************************************************)
NumNodes == 3
MaxTicks == 4
MaxCalls == 2
NumIdents == 3
PeerLimit == 1
MaxPeerList == 2
NumQueries == 2
MaxHeight == 3
MaxMined == 2
MaxSearches == 1
MaxAmount == 2
MaxNonce == 1
MaxPool == 12
MaxBlocks == 2

(***************************************************************************)
(* Program constants.                                                      *)
(***************************************************************************)
SleepInterval == 10
GossipTTL == 30
ActivityTimeout == 30
SearchTimeout == 60
BlockReward == 10000
MaxTransactionsPerBlock == 10
MempoolTimeout == 60

Nodes == 1..NumNodes
LocalNode == 1
NoValue == "none"

VARIABLES
    now,                \* time.time(), in seconds
    \* ---- gossip (gossip.py), one Gossip object per node
    known_messages,     \* [node -> set of identifiers]: keys of _known_messages
    message_timeout,    \* [node -> the dict _message_timeout as a set of <<identifier, expiry>>]
    gossip_cleanup,     \* [node -> the cleanup thread: pc, snapshot, pass time]
    handler_calls,      \* [node -> [identifier -> handler invocations]]
    handler_returns,    \* [node -> [identifier -> invocations that returned]]
    expiries,           \* [node -> [identifier -> entries the cleanup deleted]]
    ingress,            \* [node -> identifiers whose _handle_send has run]
    peers,              \* [node -> set of peer identifiers]: keys of P2PNetwork.peers
    datagrams,          \* datagrams in flight: [to, kind, msg]
    originated,         \* <<node, message>> pairs a local caller passed to Gossip.broadcast
    \* ---- peering (peering.py), the P2PNetwork object of LocalNode
    last_seen,          \* the dict last_seen as a set of <<identifier, time>>
    receiver,           \* the receive thread inside add_peer / _handle_peers
    peer_loop,          \* the thread running _peer_loop
    evicted,            \* whether add_peer has evicted a peer for capacity
    \* ---- search (search.py), the Search object of LocalNode
    queries,            \* the dict _queries as a set of <<query_id, expiry>>
    search_cleanup,     \* the thread Search.start runs: "idle", "running", "done"
    issued,             \* the query identifiers generate_id has handed out
    timeout_calls,      \* [query_id -> calls handler(None) made by the cleanup]
    response_calls,     \* [query_id -> what the calls handler(result) of _handle_response returned]
    \* ---- chain engine (blockchain.py), the BlockchainNode of LocalNode
    boot,               \* position of BlockchainNode.__init__
    block_storage,      \* namespace block: set of <<hash, serialised block>>
    blocknum_storage,   \* namespace blocknum, numeric keys: set of <<N, hash>>
    blocknum_latest,    \* namespace blocknum, key "latest": a number, or NoLatest
    blockstate_storage, \* namespace blockstate: set of <<N, state>>
    known_blocks,       \* ForkManager._known_blocks: set of <<hash, block>>
    confirmed_blocks,   \* ForkManager._confirmed_blocks: set of hashes
    highest_block,      \* ForkManager.highest_block, or NoBlock
    latest_num,         \* ChainCanonicaliser.latest_num
    latest_hash,        \* ChainCanonicaliser.latest_hash
    resolvers,          \* [query_id -> the (cur_block, block) its _result_handler closes over]
    rx,                 \* the receive thread inside a fork manager handler
    producer,           \* the thread running _block_producer
    \* ---- validator calls (blockchain.py, class Blockchain) on full states
    vpre,               \* the BlockchainState passed to the call
    vcall,              \* the call: its name and its other arguments
    vstate,             \* the same state object after the call
    vret,               \* what the call returned, "raise" for an exception
    vblock,             \* the block build_block returned
    \* ---- Mempool (blockchain.py)
    mp_transactions,    \* _transactions: the transactions in insertion order
    mp_last_seen,       \* _last_seen: transaction -> time of add_transaction
    mp_cleanup,         \* the thread running Mempool._cleanup_loop
    \* ---- handler registries (messaging.py, gossip.py, search.py)
    registries,         \* [registry -> its dict kind -> handler]
    reg_last,           \* the last call of register and what it found
    \* ---- a call of P2PNetwork.broadcast on a background thread (peering.py)
    bcast,              \* the thread: pc, the dict size its iterator expects
    \* ---- calls of the Mempool's methods that are under way (blockchain.py)
    mp_calls            \* the add_transaction and the evict_transaction in progress

gossipVars == <<known_messages, message_timeout, gossip_cleanup, handler_calls,
                handler_returns, expiries, ingress, datagrams, originated>>

(***************************************************************************)
(* Gossip messages.  The identifier is the SHA-256 of the raw JSON of      *)
(* [kind, data]; SHA-256 is taken to be collision free, so the identifier  *)
(* is represented by the pair it is the digest of.                         *)
(***************************************************************************)
GossipKinds == {"bc:new_tx", "other"}
GossipData == {"ok", "malformed"}
GossipMsgs == {m \in [kind : GossipKinds, data : GossipData] :
                 m.kind = "other" => m.data = "ok"}
Ident(m) == <<m.kind, m.data>>
Idents == {Ident(m) : m \in GossipMsgs}

\* The kinds that have a handler in Gossip._handlers.
GossipHandlers == {"bc:new_tx"}

\* What a registered handler does with a message: the handlers unpack or
\* deserialise message.data first and raise on data of another shape.
HandlerOutcome(m) == IF m.data = "malformed" THEN "raise" ELSE "return"

peerVars == <<last_seen, receiver, peer_loop, evicted>>

searchVars == <<queries, search_cleanup, issued, timeout_calls, response_calls>>

\* What the gossip actions, and the clock, leave alone.
chainVars == <<boot, block_storage, blocknum_storage, blocknum_latest,
               blockstate_storage, known_blocks, confirmed_blocks, highest_block,
               latest_num, latest_hash, resolvers, rx, producer>>

validatorVars == <<vpre, vcall, vstate, vret, vblock>>
mempoolVars == <<mp_transactions, mp_last_seen, mp_cleanup>>

\* The variables of the parts that run on their own.
registryVars == <<registries, reg_last>>
extraVars == <<registryVars, bcast, mp_calls>>
restVars == <<validatorVars, mempoolVars, extraVars>>

notGossip == <<peerVars, searchVars, chainVars, restVars>>

Bump(f, n, id) == [f EXCEPT ![n][id] = @ + 1]

\* A dict kept as a set of <<key, value>> pairs: d[key] = value, del d[key].
DictKeys(d) == {p[1] : p \in d}
DictSet(d, key, value) == {p \in d : p[1] # key} \cup {<<key, value>>}
DictDel(d, key) == {p \in d : p[1] # key}
DictGet(d, key) == (CHOOSE p \in d : p[1] = key)[2]

\* P2PNetwork.broadcast: one datagram to the endpoint of every peer.
NetworkBroadcast(n, kind, m) == {[to |-> p, kind |-> kind, msg |-> m] : p \in peers[n]}

\* Gossip.broadcast: record the message as known for 30 s and send it on.
\* inflight: the datagrams that stay in flight while the call runs.
GossipBroadcastEffect(n, m, inflight) ==
    /\ known_messages' = [known_messages EXCEPT ![n] = @ \cup {Ident(m)}]
    /\ message_timeout' = [message_timeout EXCEPT
           ![n] = DictSet(@, Ident(m), now + GossipTTL)]
    /\ datagrams' = inflight \cup NetworkBroadcast(n, "gossip:send", m)

\* A local caller passes m to Gossip.broadcast.
GossipBroadcast(n, m) ==
    /\ GossipBroadcastEffect(n, m, datagrams)
    /\ originated' = originated \cup {<<n, m>>}
    /\ UNCHANGED <<now, gossip_cleanup, handler_calls, handler_returns, expiries,
                   ingress, peers, notGossip>>

\* Mutant of IsKnown: the dedup test is missing.
IsKnown_NoDedup(n, m) == FALSE

\* The dedup test of _handle_send.
IsKnown(n, m) == Ident(m) \in known_messages[n]

\* The body of Gossip._handle_send(message, sender) at node n.
HandleSendBody(n, m, inflight) ==
    /\ ingress' = [ingress EXCEPT ![n] = @ \cup {Ident(m)}]
    /\ IF IsKnown(n, m)
       THEN /\ datagrams' = inflight
            /\ UNCHANGED <<known_messages, message_timeout, handler_calls,
                           handler_returns>>
       ELSE IF m.kind \in GossipHandlers
            THEN /\ handler_calls[n][Ident(m)] < MaxCalls
                 /\ handler_calls' = Bump(handler_calls, n, Ident(m))
                 /\ IF HandlerOutcome(m) = "return"
                    THEN /\ handler_returns' = Bump(handler_returns, n, Ident(m))
                         /\ GossipBroadcastEffect(n, m, inflight)
                    ELSE /\ datagrams' = inflight
                         /\ UNCHANGED <<handler_returns, known_messages,
                                        message_timeout>>
            ELSE /\ GossipBroadcastEffect(n, m, inflight)
                 /\ UNCHANGED <<handler_calls, handler_returns>>
    /\ UNCHANGED <<now, gossip_cleanup, expiries, peers, originated, notGossip>>

\* Gossip._handle_send run with a gossip:send message and its sender.
HandleSend(n, m) == HandleSendBody(n, m, datagrams)

(***************************************************************************)
(* Messaging (messaging.py).  UDPNode._recv_loop hands each datagram to    *)
(* MessageDispatchHandler.handle_receive, which decodes it and calls       *)
(* UDPMessaging.dispatch inside a bare try/except.  dispatch calls the     *)
(* registered handler with DispatchArgs positional arguments; a handler    *)
(* that declares another number of parameters raises TypeError, which      *)
(* handle_receive prints and drops.                                        *)
(***************************************************************************)
DispatchArgs == 1

\* The positional parameters the handlers registered with UDPMessaging
\* declare: (message, sender).
RegisteredParams ==
    [k \in {"gossip:send", "p2p:announce", "p2p:ask_for_peers", "p2p:peers",
            "p2p:ping", "p2p:pong"} |-> 2]

HandlerRuns(kind) ==
    /\ kind \in DOMAIN RegisteredParams
    /\ RegisteredParams[kind] = DispatchArgs

\* The receive loop of node d.to takes datagram d off the wire.
Deliver(d) ==
    /\ d \in datagrams
    /\ d.kind = "gossip:send"
    /\ IF HandlerRuns(d.kind)
       THEN HandleSendBody(d.to, d.msg, datagrams \ {d})
       ELSE /\ datagrams' = datagrams \ {d}
            /\ UNCHANGED <<now, known_messages, message_timeout, gossip_cleanup,
                           handler_calls, handler_returns, expiries, ingress,
                           peers, originated, notGossip>>

(***************************************************************************)
(* Gossip._cleanup_loop: each pass reads the time, snapshots the items of  *)
(* _message_timeout and deletes the expired ones, first from               *)
(* _known_messages and then from _message_timeout; the two deletions are   *)
(* separate steps of the cleanup thread.                                   *)
(***************************************************************************)
TimeoutItems(n) == message_timeout[n]

GossipCleanupStart(n) ==
    /\ gossip_cleanup[n].pc = "sleep"
    /\ gossip_cleanup' = [gossip_cleanup EXCEPT ![n] =
           [pc |-> "scan", todo |-> TimeoutItems(n), at |-> now, cur |-> NoValue]]
    /\ UNCHANGED <<now, known_messages, message_timeout, handler_calls,
                   handler_returns, expiries, ingress, peers, datagrams, originated,
                   notGossip>>

\* The expiry test of the cleanup loop.
GossipExpired(timeout, at) == timeout < at

GossipCleanupScan(n) ==
    /\ gossip_cleanup[n].pc = "scan"
    /\ IF gossip_cleanup[n].todo = {}
       THEN /\ gossip_cleanup' = [gossip_cleanup EXCEPT ![n].pc = "sleep"]
            /\ UNCHANGED <<known_messages, expiries>>
       ELSE \E item \in gossip_cleanup[n].todo :
              IF GossipExpired(item[2], gossip_cleanup[n].at)
              THEN IF item[1] \in known_messages[n]
                   THEN /\ known_messages' = [known_messages EXCEPT ![n] = @ \ {item[1]}]
                        /\ expiries' = Bump(expiries, n, item[1])
                        /\ gossip_cleanup' = [gossip_cleanup EXCEPT
                               ![n].pc = "del_timeout",
                               ![n].cur = item[1],
                               ![n].todo = @ \ {item}]
                   ELSE \* del self._known_messages[ident]: KeyError ends the thread
                        /\ gossip_cleanup' = [gossip_cleanup EXCEPT ![n].pc = "dead"]
                        /\ UNCHANGED <<known_messages, expiries>>
              ELSE /\ gossip_cleanup' = [gossip_cleanup EXCEPT ![n].todo = @ \ {item}]
                   /\ UNCHANGED <<known_messages, expiries>>
    /\ UNCHANGED <<now, message_timeout, handler_calls, handler_returns, ingress,
                   peers, datagrams, originated, notGossip>>

GossipCleanupDelTimeout(n) ==
    /\ gossip_cleanup[n].pc = "del_timeout"
    /\ message_timeout' = [message_timeout EXCEPT
           ![n] = DictDel(@, gossip_cleanup[n].cur)]
    /\ gossip_cleanup' = [gossip_cleanup EXCEPT ![n].pc = "scan", ![n].cur = NoValue]
    /\ UNCHANGED <<now, known_messages, handler_calls, handler_returns, expiries,
                   ingress, peers, datagrams, originated, notGossip>>

\* Time passes: time.time() grows by step, at most MaxTicks times.
Advance(step) ==
    /\ now + step <= MaxTicks * step
    /\ now' = now + step
    /\ UNCHANGED <<gossipVars, peers, notGossip>>

\* The time between two passes of the gossip cleanup and of the peer loop.
Tick == Advance(SleepInterval)

vars == <<now, gossipVars, peers, peerVars, searchVars, chainVars, restVars>>

CleanupIdle == [pc |-> "sleep", todo |-> {}, at |-> 0, cur |-> NoValue]

InitGossipState ==
    /\ known_messages = [n \in Nodes |-> {}]
    /\ message_timeout = [n \in Nodes |-> {}]
    /\ gossip_cleanup = [n \in Nodes |-> CleanupIdle]
    /\ handler_calls = [n \in Nodes |-> [id \in Idents |-> 0]]
    /\ handler_returns = [n \in Nodes |-> [id \in Idents |-> 0]]
    /\ expiries = [n \in Nodes |-> [id \in Idents |-> 0]]
    /\ ingress = [n \in Nodes |-> {}]
    /\ datagrams = {}
    /\ originated = {}

(***************************************************************************)
(* SpecGossip: one node's gossip engine under any sequence of receipts,    *)
(* local broadcasts, cleanup passes and clock ticks.                       *)
(***************************************************************************)
ReceiverIdle == [pc |-> "idle", left |-> 0, cur |-> 0]
PeerLoopIdle == [pc |-> "sleep"]

InitPeerState ==
    /\ last_seen = {}
    /\ receiver = ReceiverIdle
    /\ peer_loop = PeerLoopIdle
    /\ evicted = FALSE

QueryIds == {<<"q", i>> : i \in 1..NumQueries}

InitSearchState ==
    /\ queries = {}
    /\ search_cleanup = "idle"
    /\ issued = {}
    /\ timeout_calls = [q \in QueryIds |-> 0]
    /\ response_calls = [q \in QueryIds |-> <<>>]

(***************************************************************************)
(* Blocks (blockchain.py).  A block is a record of its number, its pow      *)
(* nonce, its parent's hash and its transaction list.  The transaction     *)
(* list is NoTx (empty) or InvalidTx (it holds a transaction whose         *)
(* signature does not verify).  SHA-256 is taken as collision-free: the    *)
(* hash of a block is named by the serialisation it is computed from.      *)
(***************************************************************************)
NoTx == 0
InvalidTx == 1

\* The pow nonces: the one the local search for a nonce ends at, one of a
\* remote miner, and one whose hash does not start with the target zeros.
LocalNonce == 0
RemoteNonce == 1
UnminedNonce == 2

\* parent_hash of the genesis block: 32 zero bytes, which no block hashes to.
ZeroHash == <<>>

Mk(number, nonce, parent_hash, txs) ==
    [number |-> number, nonce |-> nonce, parent_hash |-> parent_hash, txs |-> txs]

\* Block.serialize: number, nonce, parent hash, then the transactions.
Serialize(b) == <<b.number, b.nonce>> \o b.parent_hash \o <<b.txs>>

\* Block.deserialize: the first two fields, the parent hash, the rest.
Deserialize(data) ==
    [number |-> data[1], nonce |-> data[2],
     parent_hash |-> SubSeq(data, 3, Len(data) - 1), txs |-> data[Len(data)]]

\* Block.calculate_hash: the digest of the serialisation.
Hash(b) == Serialize(b)

\* Block.has_difficulty(_DIFFICULTY): a fixed property of the hash.  The
\* block _make_genesis builds (number 0, nonce 0, zero parent hash) is not
\* mined: its digest, d4522760..., does not start with the target zeros.
HasDifficulty(b) ==
    /\ b.nonce # UnminedNonce
    /\ ~(b.number = 0 /\ b.nonce = 0 /\ b.parent_hash = ZeroHash)

\* The value of an absent block (None), of an absent state, of an absent key.
NoBlock == Mk(0 - 1, 0, ZeroHash, NoTx)
NoState == [block_number |-> 0 - 1, block_hash |-> ZeroHash, balance |-> 0]
NoLatest == 0 - 1

\* _make_genesis: the genesis block and the genesis state.  balance is the
\* balance of the coinbase address, the only one a block without
\* transactions changes.
Genesis == Mk(0, 0, ZeroHash, NoTx)
GenesisState == [block_number |-> 0, block_hash |-> Hash(Genesis), balance |-> 0]

RxIdle == [pc |-> "idle", block |-> NoBlock, cur |-> NoBlock]
ProducerAt(pc) ==
    [pc |-> pc, tip_block |-> NoBlock, todo |-> <<>>, state |-> NoState,
     block |-> NoBlock, cur |-> NoBlock, error |-> ""]

\* Before BlockchainNode.__init__: empty storage, no object built.
InitChainState ==
    /\ boot = "genesis_block"
    /\ block_storage = {}
    /\ blocknum_storage = {}
    /\ blocknum_latest = NoLatest
    /\ blockstate_storage = {}
    /\ known_blocks = {}
    /\ confirmed_blocks = {}
    /\ highest_block = NoBlock
    /\ latest_num = 0
    /\ latest_hash = ZeroHash
    /\ resolvers = [q \in QueryIds |-> [cur |-> NoBlock, block |-> NoBlock]]
    /\ rx = RxIdle
    /\ producer = ProducerAt("start")

(***************************************************************************)
(* Full chain states (BlockchainState) and transactions, for the calls of  *)
(* the validator.  balances and nonces are dicts keyed by address.  What   *)
(* tx.validate_signature() does is part of the transaction: it returns     *)
(* True ("valid"), returns False ("invalid") or raises ("error").          *)
(***************************************************************************)
Addresses == {"a", "b"}
SigOutcomes == {"valid", "invalid", "error"}

Txs == [sender : Addresses, receiver : Addresses, nonce : 0..MaxNonce,
        amount : (0 - 1)..MaxAmount, sig : SigOutcomes]

\* The dicts over Addresses with values in vals: each key absent or present.
DictsOver(vals) ==
    {d \in SUBSET (Addresses \X vals) :
        \A p \in d, r \in d : p[1] = r[1] => p = r}

FullStates ==
    [block_number : {0}, block_hash : {Hash(Genesis)},
     balances : DictsOver(0..MaxAmount), nonces : DictsOver(0..MaxNonce)]

EmptyState ==
    [block_number |-> 0, block_hash |-> Hash(Genesis), balances |-> {}, nonces |-> {}]
NoCall == [fn |-> "none"]

\* A block with its coinbase and its list of transactions; no block (None).
FullBlock(number, nonce, parent_hash, coinbase, transactions) ==
    [number |-> number, nonce |-> nonce, parent_hash |-> parent_hash,
     coinbase |-> coinbase, transactions |-> transactions]
NoFullBlock == FullBlock(0 - 1, 0, ZeroHash, "", <<>>)

\* No validator call is under observation.
InitValidatorState ==
    /\ vpre = EmptyState
    /\ vcall = NoCall
    /\ vstate = EmptyState
    /\ vret = "none"
    /\ vblock = NoFullBlock

\* Mempool.__init__: no transaction, the cleanup thread not started.
InitMempoolState ==
    /\ mp_transactions = <<>>
    /\ mp_last_seen = {}
    /\ mp_cleanup = [pc |-> "idle", now |-> 0]

\* The dicts of UDPMessaging.handlers, Gossip._handlers and
\* Search._searchers as their __init__ creates them.
Registries == {"messaging", "gossip", "search"}
NoRegisterCall ==
    [registry |-> "none", kind |-> "", handler |-> 0, ret |-> "none", before |-> {}]
InitRegistryState ==
    /\ registries = [r \in Registries |-> {}]
    /\ reg_last = NoRegisterCall

\* No call of P2PNetwork.broadcast is running.
BcastIdle == [pc |-> "idle", used |-> 0, stayed |-> {}, changed |-> FALSE]
InitBroadcastState == bcast = BcastIdle

\* No call of add_transaction or evict_transaction is under way.
NoMempoolCall == [add |-> {}, evict |-> {}]
InitMempoolCalls == mp_calls = NoMempoolCall

InitExtraState == InitRegistryState /\ InitBroadcastState /\ InitMempoolCalls
InitRestState == InitValidatorState /\ InitMempoolState /\ InitExtraState

InitGossip ==
    /\ now = 0
    /\ InitGossipState
    /\ InitPeerState
    /\ InitSearchState
    /\ InitChainState
    /\ InitRestState
    /\ peers = [n \in Nodes |-> {}]

\* The messages of the kinds that have a handler.
HandledMsgs == {m \in GossipMsgs : m.kind \in GossipHandlers}

NextGossip ==
    \/ \E m \in HandledMsgs : HandleSend(LocalNode, m)
    \/ \E m \in HandledMsgs : GossipBroadcast(LocalNode, m)
    \/ GossipCleanupStart(LocalNode)
    \/ GossipCleanupScan(LocalNode)
    \/ GossipCleanupDelTimeout(LocalNode)
    \/ Tick

SpecGossip == InitGossip /\ [][NextGossip]_vars

RECURSIVE ReachFrom(_, _)
ReachFrom(seen, k) ==
    IF k = 0 THEN seen
    ELSE ReachFrom(seen \cup UNION {peers[x] : x \in seen}, k - 1)
Reachable(o) == ReachFrom(peers[o], NumNodes)

InitFlood ==
    /\ now = 0
    /\ InitGossipState
    /\ InitPeerState
    /\ InitSearchState
    /\ InitChainState
    /\ InitRestState
    /\ peers \in [Nodes -> SUBSET Nodes]
    /\ \A n \in Nodes : n \notin peers[n]

NextFlood ==
    \/ \E n \in Nodes, m \in GossipMsgs :
          /\ Cardinality(originated) < MaxCalls
          /\ GossipBroadcast(n, m)
    \/ \E d \in datagrams : Deliver(d)

SpecFlood ==
    /\ InitFlood
    /\ [][NextFlood]_vars
    /\ \A to \in Nodes, m \in GossipMsgs :
          WF_vars(Deliver([to |-> to, kind |-> "gossip:send", msg |-> m]))

\* C2: with no datagram loss and fixed peer tables, a message passed to
\* Gossip.broadcast at a node is eventually received (its gossip:send ingress
\* runs) at every node reachable from the origin through peer-table edges.
\* Stated on the runs' final states: once no datagram is in flight any more,
\* the ingress has run at every reachable node.
C2_BroadcastReachesAll ==
    datagrams = {} =>
        \A o \in Nodes, m \in GossipMsgs, n \in Nodes :
            (<<o, m>> \in originated /\ n \in Reachable(o))
                => Ident(m) \in ingress[n]

(***************************************************************************)
(* Peering overlay (peering.py): the P2PNetwork object of LocalNode.       *)
(* peers[LocalNode] is the key set of P2PNetwork.peers.  The datagrams     *)
(* that announce_to, _handle_ping and the ping loop send go to endpoints   *)
(* outside this node and are not part of its state.                        *)
(***************************************************************************)
PeerIdents == 1..NumIdents
MyId == LocalNode

\* What the peering actions leave alone.
notPeer == <<gossipVars, searchVars, chainVars, restVars>>

Table == peers[LocalNode]
SetTable(t) == peers' = [peers EXCEPT ![LocalNode] = t]

\* Mutant of OverLimit: the capacity test is off by one.
OverLimit_OffByOne(t) == Cardinality(t) > PeerLimit + 1

\* The capacity test of add_peer.
OverLimit(t) == Cardinality(t) > PeerLimit

\* add_peer up to the insertion: an identifier that is in the table, or is
\* this node's own, is ignored.  left: the entries of the p2p:peers list
\* that the loop of _handle_peers has still to add.
AddPeerInsert(id, left) ==
    IF id \in Table \/ id = MyId
    THEN /\ receiver' = [pc |-> "idle", left |-> left, cur |-> 0]
         /\ UNCHANGED <<peers, last_seen>>
    ELSE /\ SetTable(Table \cup {id})
         /\ last_seen' = DictSet(last_seen, id, now)
         /\ receiver' = [pc |-> "check", left |-> left, cur |-> id]

\* _handle_announce(message, sender): add_peer of the announced identifier.
HandleAnnounce(id) ==
    /\ receiver.pc = "idle" /\ receiver.left = 0
    /\ AddPeerInsert(id, 0)
    /\ UNCHANGED <<now, peer_loop, evicted, notPeer>>

\* _handle_peers(message, sender) with a list of len entries, the first of
\* which names id: add_peer of every listed identifier, in order.
HandlePeers(len, id) ==
    /\ receiver.pc = "idle" /\ receiver.left = 0
    /\ AddPeerInsert(id, len - 1)
    /\ UNCHANGED <<now, peer_loop, evicted, notPeer>>

\* The next entry of the list, naming id.
HandlePeersNext(id) ==
    /\ receiver.pc = "idle" /\ receiver.left > 0
    /\ AddPeerInsert(id, receiver.left - 1)
    /\ UNCHANGED <<now, peer_loop, evicted, notPeer>>

\* The candidates of random.choice(list(self.peers.keys())).
Victims(t) == t

\* add_peer after the insertion: over capacity, a random key is deleted;
\* then announce_to(peer.udp).
AddPeerCheckBody ==
    /\ receiver.pc = "check"
    /\ IF OverLimit(Table)
       THEN \E v \in Victims(Table) :
              /\ SetTable(Table \ {v})
              /\ evicted' = TRUE
       ELSE UNCHANGED <<peers, evicted>>
    /\ receiver' = [receiver EXCEPT !.pc = "idle", !.cur = 0]

AddPeerCheck ==
    /\ AddPeerCheckBody
    /\ UNCHANGED <<now, last_seen, peer_loop, notPeer>>

\* _handle_pong(message, sender): last_seen[message.data] = time.time().
HandlePong(id) ==
    /\ receiver.pc = "idle" /\ receiver.left = 0
    /\ last_seen' = DictSet(last_seen, id, now)
    /\ UNCHANGED <<now, peers, receiver, peer_loop, evicted, notPeer>>

\* The timeout test of the sweep.
TimedOut(seen, at) == seen + ActivityTimeout < at

\* The entries of last_seen that a sweep at time `at` finds timed out.
Stale(at) == {item \in last_seen : TimedOut(item[2], at)}

(***************************************************************************)
(* One pass of _peer_loop: ping every peer, then, for each timed-out item  *)
(* of last_seen, del self.peers[id] and del self.last_seen[id].  An item   *)
(* whose identifier is not a key of peers raises KeyError, which ends the  *)
(* thread; the items the loop visited before it are already deleted (done: *)
(* any set of the deletable items, the dict order not being modelled).     *)
(***************************************************************************)
PeerLoopPassBody ==
    /\ peer_loop.pc = "sleep"
    /\ LET stale == Stale(now)
           orphans == {item \in stale : item[1] \notin Table}
       IN IF orphans = {}
          THEN /\ SetTable(Table \ DictKeys(stale))
               /\ last_seen' = last_seen \ stale
               /\ UNCHANGED peer_loop
          ELSE \E done \in SUBSET (stale \ orphans) :
                 /\ SetTable(Table \ DictKeys(done))
                 /\ last_seen' = last_seen \ done
                 /\ peer_loop' = [peer_loop EXCEPT !.pc = "dead"]

PeerLoopPass ==
    /\ PeerLoopPassBody
    /\ UNCHANGED <<now, receiver, evicted, notPeer>>

InitPeer ==
    /\ now = 0
    /\ InitGossipState
    /\ InitPeerState
    /\ InitSearchState
    /\ InitChainState
    /\ InitRestState
    /\ peers = [n \in Nodes |-> {}]

NextPeer ==
    \/ \E id \in PeerIdents : HandleAnnounce(id)
    \/ \E len \in 1..MaxPeerList, id \in PeerIdents : HandlePeers(len, id)
    \/ \E id \in PeerIdents : HandlePeersNext(id)
    \/ AddPeerCheck
    \/ \E id \in PeerIdents : HandlePong(id)
    \/ PeerLoopPass
    \/ Tick

SpecPeer == InitPeer /\ [][NextPeer]_vars

\* C6: a peer that stops answering pings is eventually removed by the
\* liveness loop, and the loop keeps running afterwards, from every reachable
\* state (after a capacity eviction, after a pong from an identifier that is
\* not in the table).  The loop that has to remove such peers is running in
\* every reachable state.
C6_PeerLoopKeepsRunning == peer_loop.pc # "dead"

\* C7: whenever no add_peer call is in progress, the peer table holds at most
\* peer_limit entries.
C7_TableWithinLimit ==
    receiver.pc = "idle" => Cardinality(Table) <= PeerLimit

C7_Witness ==
    /\ receiver.pc = "idle"
    /\ evicted
    /\ Cardinality(Table) = PeerLimit

(***************************************************************************)
(* Distributed search (search.py): the Search object of LocalNode.  The    *)
(* search:query message that search_for broadcasts is named by its query   *)
(* identifier.                                                             *)
(***************************************************************************)
\* What the search actions leave alone.
notSearch == <<peers, peerVars, gossip_cleanup, handler_calls, handler_returns,
               expiries, ingress, originated, chainVars, restVars>>

QueryMessage(q) == [kind |-> "search:query", data |-> q]

\* search_for(kind, query, handler): a fresh query identifier, the entry
\* (time.time() + timeout, handler), and the broadcast of the query.  The
\* program calls Search.start before it issues any query.
SearchFor(q) ==
    /\ search_cleanup # "idle"
    /\ q \notin issued
    /\ issued' = issued \cup {q}
    /\ queries' = DictSet(queries, q, now + SearchTimeout)
    /\ GossipBroadcastEffect(LocalNode, QueryMessage(q), datagrams)
    /\ UNCHANGED <<now, search_cleanup, timeout_calls, response_calls, notSearch>>

HandleResponse_KeepEntry(q, done) ==
    /\ IF q \in DictKeys(queries)
       THEN /\ Len(response_calls[q]) < MaxCalls
            /\ response_calls' = [response_calls EXCEPT ![q] = Append(@, done)]
            /\ UNCHANGED queries
       ELSE UNCHANGED <<queries, response_calls>>
    /\ UNCHANGED <<now, search_cleanup, issued, timeout_calls, known_messages,
                   message_timeout, datagrams, notSearch>>

\* _handle_response(message) for query identifier q; done: whether the
\* handler returns a true value.
HandleResponse(q, done) ==
    /\ IF q \in DictKeys(queries)
       THEN /\ Len(response_calls[q]) < MaxCalls
            /\ response_calls' = [response_calls EXCEPT ![q] = Append(@, done)]
            /\ queries' = IF done THEN DictDel(queries, q) ELSE queries
       ELSE UNCHANGED <<queries, response_calls>>
    /\ UNCHANGED <<now, search_cleanup, issued, timeout_calls, known_messages,
                   message_timeout, datagrams, notSearch>>

\* Search.start: the cleanup worker is started in the background.
SearchStart ==
    /\ search_cleanup = "idle"
    /\ search_cleanup' = "running"
    /\ UNCHANGED <<now, queries, issued, timeout_calls, response_calls,
                   known_messages, message_timeout, datagrams, notSearch>>

\* The expiry test of the search cleanup.
QueryExpired(timeout, at) == timeout < at

\* What the worker does after its pass over the pending queries.
AfterCleanupPass == "done"

\* _cleanup_loop: one pass over the items of _queries; every expired entry
\* is popped and its handler called with None.  The function has no
\* enclosing loop: it returns after the pass, which ends the thread.
SearchCleanupPass ==
    /\ search_cleanup = "running"
    /\ LET expired == {item \in queries : QueryExpired(item[2], now)}
       IN /\ queries' = queries \ expired
          /\ timeout_calls' = [q \in QueryIds |->
                IF q \in DictKeys(expired) THEN timeout_calls[q] + 1
                ELSE timeout_calls[q]]
    /\ search_cleanup' = AfterCleanupPass
    /\ UNCHANGED <<now, issued, response_calls, known_messages, message_timeout,
                   datagrams, notSearch>>

\* Time passes, in units of the search timeout.
SearchTick == Advance(SearchTimeout)

InitSearch ==
    /\ now = 0
    /\ InitGossipState
    /\ InitPeerState
    /\ InitSearchState
    /\ InitChainState
    /\ InitRestState
    /\ peers \in [Nodes -> SUBSET Nodes]
    /\ \A n \in Nodes : n \notin peers[n]
    /\ \A n \in Nodes \ {LocalNode} : peers[n] = {}

NextSearch ==
    \/ \E q \in QueryIds : SearchFor(q)
    \/ \E q \in QueryIds, done \in BOOLEAN : HandleResponse(q, done)
    \/ SearchStart
    \/ SearchCleanupPass
    \/ SearchTick

SpecSearch == InitSearch /\ [][NextSearch]_vars

\* C5: every pending search query whose expiry time has passed is eventually
\* removed from the pending table by the search cleanup worker, whenever the
\* query was issued after Search.start.  Stated on what a finite run shows:
\* while a pending query is past its expiry, the cleanup worker has not
\* finished.
C5_ExpiredQueryIsCleaned ==
    \A item \in queries :
        QueryExpired(item[2], now) => search_cleanup # "done"

(***************************************************************************)
(* Chain engine (blockchain.py): the BlockchainNode of LocalNode.  Two     *)
(* threads run on it: the receive thread, inside _handle_new_block or the  *)
(* fork manager's search resolver, and the block producer.                 *)
(***************************************************************************)
\* What the chain actions leave alone.
notChain == <<now, peers, peerVars, gossip_cleanup, handler_calls, handler_returns,
              expiries, ingress, originated, search_cleanup, timeout_calls, restVars>>
gossipOut == <<known_messages, message_timeout, datagrams>>
searchOut == <<queries, issued, resolvers, response_calls>>
canonVars == <<blocknum_storage, blocknum_latest, blockstate_storage,
               latest_num, latest_hash>>
forkVars == <<block_storage, known_blocks, confirmed_blocks, highest_block>>

\* The persistence layer: a namespace maps keys to values; save replaces the
\* value of a key, load reads it, exists tells whether the key is present.
StorageExists(ns, key) == key \in DictKeys(ns)
StorageLoad(ns, key) == DictGet(ns, key)
StorageSave(ns, key, value) == DictSet(ns, key, value)

\* _create_genesis, one storage write per step; then the objects are built
\* and ChainCanonicaliser.__init__ reads latest_num and latest_hash.
CreateGenesis ==
    /\ boot # "running"
    /\ \/ /\ boot = "genesis_block"
          /\ block_storage' =
                StorageSave(block_storage, Hash(Genesis), Serialize(Genesis))
          /\ boot' = "genesis_num"
          /\ UNCHANGED canonVars
       \/ /\ boot = "genesis_num"
          /\ blocknum_storage' = StorageSave(blocknum_storage, 0, Hash(Genesis))
          /\ boot' = "genesis_latest"
          /\ UNCHANGED <<block_storage, blocknum_latest, blockstate_storage,
                         latest_num, latest_hash>>
       \/ /\ boot = "genesis_latest"
          /\ blocknum_latest' = 0
          /\ boot' = "genesis_state"
          /\ UNCHANGED <<block_storage, blocknum_storage, blockstate_storage,
                         latest_num, latest_hash>>
       \/ /\ boot = "genesis_state"
          /\ blockstate_storage' = StorageSave(blockstate_storage, 0, GenesisState)
          /\ latest_num' = blocknum_latest
          /\ latest_hash' = StorageLoad(blocknum_storage, blocknum_latest)
          /\ boot' = "running"
          /\ UNCHANGED <<block_storage, blocknum_storage, blocknum_latest>>
    /\ UNCHANGED <<known_blocks, confirmed_blocks, highest_block, rx, producer,
                   gossipOut, searchOut, notChain>>

\* ---- fork manager
IsConfirmedBlock(hash) ==
    hash \in confirmed_blocks \/ StorageExists(block_storage, hash)

IsKnownBlock(hash, kb) == hash \in DictKeys(kb) \/ IsConfirmedBlock(hash)

\* _get_known_block with known_blocks = kb; NoBlock for None.
GetKnownBlock(hash, kb) ==
    IF hash \in DictKeys(kb) THEN DictGet(kb, hash)
    ELSE IF StorageExists(block_storage, hash)
         THEN Deserialize(StorageLoad(block_storage, hash))
         ELSE NoBlock

\* _prevalidate_block(hash, block).
Prevalidate(hash, b) == Hash(b) = hash /\ HasDifficulty(b)

\* The walk of _add_block_and_ancestors from cur: NoBlock when it ends in
\* _confirm_block_and_ancestors, else the block whose parent is unknown.
RECURSIVE FirstUnknown(_, _)
FirstUnknown(cur, kb) ==
    IF cur.number = 0 THEN NoBlock
    ELSE IF IsConfirmedBlock(Hash(cur)) THEN NoBlock
    ELSE IF ~IsKnownBlock(cur.parent_hash, kb) THEN cur
    ELSE FirstUnknown(GetKnownBlock(cur.parent_hash, kb), kb)

\* _update_chain_tip(block), the test: the thread reads highest_block.  No
\* lock is held, so the assignment that follows is a later step of the
\* thread, and the other thread can run between the two.
TipWins(block) == highest_block = NoBlock \/ block.number > highest_block.number

\* One iteration of the loop of _confirm_block_and_ancestors(block) at
\* cur_block = cur; when the loop ends there, the test of _update_chain_tip.
ConfirmDone(cur) == IsConfirmedBlock(Hash(cur)) \/ cur.number = 0
ConfirmIteration(cur, block) ==
    /\ IF IsConfirmedBlock(Hash(cur))
       THEN UNCHANGED <<confirmed_blocks, block_storage>>
       ELSE /\ confirmed_blocks' = confirmed_blocks \cup {Hash(cur)}
            /\ block_storage' = StorageSave(block_storage, Hash(cur), Serialize(cur))
    /\ UNCHANGED highest_block

\* An unused query identifier (generate_id).
FreshQuery == CHOOSE q \in QueryIds : q \notin issued

BlockMessage(b) == [kind |-> "bc:new_block", data |-> Serialize(b)]
ParentQuery(q) == [kind |-> "search:query", data |-> q]

\* _add_block_and_ancestors(block) on the receive thread, with known_blocks
\* = kb and _queries = qs when it is called: the block is added, then the
\* confirmation starts or the unknown parent is searched for.
AddBlockAndAncestors(block, kb, qs) ==
    LET kb2 == DictSet(kb, Hash(block), block)
        cur == FirstUnknown(block, kb2)
    IN /\ known_blocks' = kb2
       /\ IF cur = NoBlock
          THEN /\ rx' = [pc |-> "confirm", block |-> block, cur |-> block]
               /\ queries' = qs
               /\ UNCHANGED <<issued, resolvers, gossipOut>>
          ELSE /\ Cardinality(issued) < MaxSearches
               /\ issued' = issued \cup {FreshQuery}
               /\ queries' = DictSet(qs, FreshQuery, now + SearchTimeout)
               /\ resolvers' = [resolvers EXCEPT
                                   ![FreshQuery] = [cur |-> cur, block |-> block]]
               /\ GossipBroadcastEffect(LocalNode, ParentQuery(FreshQuery), datagrams)
               /\ UNCHANGED rx

\* _handle_new_block(message) with message.data = data.
HandleNewBlock(data) ==
    /\ boot = "running"
    /\ rx.pc = "idle"
    /\ LET block == Deserialize(data)
       IN IF ~Prevalidate(Hash(block), block)
          THEN UNCHANGED <<known_blocks, rx, queries, issued, resolvers, gossipOut>>
          ELSE AddBlockAndAncestors(block, known_blocks, queries)
    /\ UNCHANGED <<boot, block_storage, confirmed_blocks, highest_block, canonVars,
                   producer, response_calls, notChain>>

HandleBlockResponse_NoRetry(q, data) ==
    /\ boot = "running"
    /\ rx.pc = "idle"
    /\ q \in DictKeys(queries)
    /\ known_blocks' =
          DictSet(known_blocks, Hash(Deserialize(data)), Deserialize(data))
    /\ UNCHANGED <<rx, queries, issued, resolvers, gossipOut, boot, block_storage,
                   confirmed_blocks, highest_block, canonVars, producer,
                   response_calls, notChain>>

HandleBlockResponse_NoNumberCheck(q, data) ==
    /\ boot = "running"
    /\ rx.pc = "idle"
    /\ q \in DictKeys(queries)
    /\ LET cur == resolvers[q].cur
           block == resolvers[q].block
           parent_block == Deserialize(data)
       IN IF cur.parent_hash # Hash(parent_block)
          THEN UNCHANGED <<known_blocks, rx, queries, issued, resolvers, gossipOut>>
          ELSE IF ~Prevalidate(Hash(parent_block), parent_block)
          THEN /\ queries' = DictDel(queries, q)
               /\ UNCHANGED <<known_blocks, rx, issued, resolvers, gossipOut>>
          ELSE AddBlockAndAncestors(block,
                  DictSet(known_blocks, Hash(parent_block), parent_block), queries)
    /\ UNCHANGED <<boot, block_storage, confirmed_blocks, highest_block, canonVars,
                   producer, response_calls, notChain>>

\* Search._handle_response for query q with result data, the handler being
\* the _result_handler of _add_block_and_ancestors.
HandleBlockResponse(q, data) ==
    /\ boot = "running"
    /\ rx.pc = "idle"
    /\ q \in DictKeys(queries)
    /\ LET cur == resolvers[q].cur
           block == resolvers[q].block
           parent_block == Deserialize(data)
       IN IF cur.parent_hash # Hash(parent_block)
          THEN UNCHANGED <<known_blocks, rx, queries, issued, resolvers, gossipOut>>
          ELSE IF cur.number # parent_block.number + 1 \/ ~Prevalidate(Hash(parent_block), parent_block)
          THEN /\ queries' = DictDel(queries, q)
               /\ UNCHANGED <<known_blocks, rx, issued, resolvers, gossipOut>>
          ELSE AddBlockAndAncestors(block,
                  DictSet(known_blocks, Hash(parent_block), parent_block), queries)
    /\ UNCHANGED <<boot, block_storage, confirmed_blocks, highest_block, canonVars,
                   producer, response_calls, notChain>>

\* The receive thread inside _confirm_block_and_ancestors.  A ValueError
\* of get_parent ends the handler.
RxConfirm ==
    /\ rx.pc = "confirm"
    /\ ConfirmIteration(rx.cur, rx.block)
    /\ rx' = IF ConfirmDone(rx.cur)
             THEN IF TipWins(rx.block) THEN [rx EXCEPT !.pc = "tip"] ELSE RxIdle
             ELSE IF GetKnownBlock(rx.cur.parent_hash, known_blocks) = NoBlock
             THEN RxIdle
             ELSE [rx EXCEPT !.cur = GetKnownBlock(rx.cur.parent_hash, known_blocks)]
    /\ UNCHANGED <<boot, known_blocks, canonVars, producer, gossipOut, searchOut,
                   notChain>>

\* The receive thread in _update_chain_tip, the assignment to highest_block.
RxSetTip ==
    /\ rx.pc = "tip"
    /\ highest_block' = rx.block
    /\ rx' = RxIdle
    /\ UNCHANGED <<boot, block_storage, confirmed_blocks, known_blocks, canonVars,
                   producer, gossipOut, searchOut, notChain>>

\* ---- canonicaliser
\* get_block_by_hash: from block storage only; NoBlock when it raises.
GetBlockByHash(hash) ==
    IF StorageExists(block_storage, hash)
    THEN Deserialize(StorageLoad(block_storage, hash)) ELSE NoBlock

\* BlockchainState.load_from_disk(blockstate_storage, number); NoState when
\* it raises.
LoadState(number) ==
    IF StorageExists(blockstate_storage, number)
       /\ StorageLoad(blockstate_storage, number).block_number = number
    THEN StorageLoad(blockstate_storage, number) ELSE NoState

Failed(error) == [ok |-> FALSE, error |-> error, base |-> NoBlock, todo |-> <<>>]

\* update_canonical, second loop: tip and cur_latest step to their parents
\* until they are the same block.
RECURSIVE CommonAncestor(_, _, _)
CommonAncestor(tip, cur_latest, todo) ==
    IF Hash(tip) = Hash(cur_latest)
    THEN [ok |-> TRUE, error |-> "", base |-> cur_latest, todo |-> todo]
    ELSE IF GetKnownBlock(tip.parent_hash, known_blocks) = NoBlock
    THEN Failed("get_parent")
    ELSE IF GetBlockByHash(cur_latest.parent_hash) = NoBlock
    THEN Failed("get_block_by_hash")
    ELSE CommonAncestor(GetKnownBlock(tip.parent_hash, known_blocks),
                        GetBlockByHash(cur_latest.parent_hash), Append(todo, tip))

\* update_canonical, first loop: tip steps to its parent while its number
\* is above cur_latest's.
RECURSIVE DescendTip(_, _, _)
DescendTip(tip, cur_latest, todo) ==
    IF tip.number > cur_latest.number
    THEN IF GetKnownBlock(tip.parent_hash, known_blocks) = NoBlock
         THEN Failed("get_parent")
         ELSE DescendTip(GetKnownBlock(tip.parent_hash, known_blocks), cur_latest,
                         Append(todo, tip))
    ELSE CommonAncestor(tip, cur_latest, todo)

\* _get_latest_block: NoBlock when _get_latest_hash or get_block_by_hash
\* raises.  A missing key "latest" reads as 0.
LatestNum == IF blocknum_latest = NoLatest THEN 0 ELSE blocknum_latest
LatestBlock ==
    IF StorageExists(blocknum_storage, LatestNum)
    THEN GetBlockByHash(StorageLoad(blocknum_storage, LatestNum)) ELSE NoBlock

Reverse(seq) == [i \in 1..Len(seq) |-> seq[Len(seq) + 1 - i]]

\* Blockchain.apply_block(block, state): whether it returns, and the state
\* it leaves.
ApplyBlockOk(block, state) ==
    /\ block.number = state.block_number + 1
    /\ block.parent_hash = state.block_hash
    /\ HasDifficulty(block)
    /\ block.txs # InvalidTx
ApplyBlock(block, state) ==
    [block_number |-> block.number, block_hash |-> Hash(block),
     balance |-> state.balance + BlockReward]

\* Blockchain.build_block on the latest state, the mempool being empty: the
\* candidate the pow loop starts from, whose hash does not meet the
\* difficulty yet.
BuildBlock(state) == Mk(state.block_number + 1, UnminedNonce, state.block_hash, NoTx)

\* An uncaught exception ends the thread of _block_producer.
Dead(error) == [ProducerAt("dead") EXCEPT !.error = error]

\* _produce_block after update_canonical has returned: get_latest_state and
\* build_block, read from the storage whose key "latest" holds num.
AfterUpdate(tip_block, num, states) ==
    IF ~StorageExists(states, num) THEN Dead("get_latest_state")
    ELSE [ProducerAt("mine") EXCEPT !.tip_block = tip_block,
                                    !.block = BuildBlock(StorageLoad(states, num))]

\* _produce_block: the tip is read and update_canonical computes its todo
\* list and loads the state of the common ancestor.
ProducerStart ==
    /\ boot = "running"
    /\ producer.pc = "start"
    /\ producer' =
         IF highest_block = NoBlock
         THEN AfterUpdate(highest_block, LatestNum, blockstate_storage)
         ELSE IF LatestBlock = NoBlock THEN Dead("_get_latest_block")
         ELSE LET plan == DescendTip(highest_block, LatestBlock, <<>>)
              IN IF ~plan.ok THEN Dead(plan.error)
                 ELSE IF LoadState(plan.base.number) = NoState
                 THEN Dead("load_from_disk")
                 ELSE IF plan.todo = <<>>
                 THEN AfterUpdate(highest_block, LatestNum, blockstate_storage)
                 ELSE [ProducerAt("apply") EXCEPT
                          !.tip_block = highest_block,
                          !.todo = Reverse(plan.todo),
                          !.state = LoadState(plan.base.number)]
    /\ UNCHANGED <<boot, forkVars, canonVars, rx, gossipOut, searchOut, notChain>>

\* update_canonical, loop body: apply_block, then state.save_to_disk.
ProducerApply ==
    /\ producer.pc = "apply"
    /\ LET block == Head(producer.todo)
           state == ApplyBlock(block, producer.state)
       IN IF ~ApplyBlockOk(block, producer.state)
          THEN /\ producer' = Dead("apply_block")
               /\ UNCHANGED blockstate_storage
          ELSE /\ producer' = [producer EXCEPT !.pc = "save_num", !.state = state]
               /\ blockstate_storage' =
                     StorageSave(blockstate_storage, state.block_number, state)
    /\ UNCHANGED <<boot, forkVars, blocknum_storage, blocknum_latest, latest_num,
                   latest_hash, rx, gossipOut, searchOut, notChain>>

ProducerSaveNum_Stale ==
    /\ producer.pc = "save_num"
    /\ producer' = [producer EXCEPT !.pc = "save_latest"]
    /\ UNCHANGED <<boot, forkVars, blocknum_storage, blocknum_latest,
                   blockstate_storage, latest_num, latest_hash, rx, gossipOut,
                   searchOut, notChain>>

\* update_canonical, loop body: blocknum_storage.save(str(block.number), hash).
ProducerSaveNum ==
    /\ producer.pc = "save_num"
    /\ blocknum_storage' = StorageSave(blocknum_storage, Head(producer.todo).number,
                                   Hash(Head(producer.todo)))
    /\ producer' = [producer EXCEPT !.pc = "save_latest"]
    /\ UNCHANGED <<boot, forkVars, blocknum_latest, blockstate_storage, latest_num,
                   latest_hash, rx, gossipOut, searchOut, notChain>>

ProducerSaveLatest_KeepLatest ==
    /\ producer.pc = "save_latest"
    /\ latest_num' = Head(producer.todo).number
    /\ latest_hash' = Hash(Head(producer.todo))
    /\ producer' =
         IF Tail(producer.todo) = <<>>
         THEN AfterUpdate(producer.tip_block, Head(producer.todo).number,
                          blockstate_storage)
         ELSE [producer EXCEPT !.pc = "apply", !.todo = Tail(@)]
    /\ UNCHANGED <<boot, forkVars, blocknum_storage, blocknum_latest,
                   blockstate_storage, rx, gossipOut, searchOut, notChain>>

\* update_canonical, loop body: blocknum_storage.save("latest", number), and
\* latest_num, latest_hash; after the last block, on to build_block.
ProducerSaveLatest ==
    /\ producer.pc = "save_latest"
    /\ blocknum_latest' = Head(producer.todo).number
    /\ latest_num' = Head(producer.todo).number
    /\ latest_hash' = Hash(Head(producer.todo))
    /\ producer' =
         IF Tail(producer.todo) = <<>>
         THEN AfterUpdate(producer.tip_block, Head(producer.todo).number,
                          blockstate_storage)
         ELSE [producer EXCEPT !.pc = "apply", !.todo = Tail(@)]
    /\ UNCHANGED <<boot, forkVars, blocknum_storage, blockstate_storage, rx,
                   gossipOut, searchOut, notChain>>

\* The candidate with the nonce the pow loop ends on.
Mined(block) == [block EXCEPT !.nonce = LocalNonce]

ProducerMineFound_FirstNonce ==
    /\ producer.pc = "mine"
    /\ producer.block.number <= MaxMined
    /\ producer' = [ProducerAt("confirm") EXCEPT !.block = producer.block,
                                                 !.cur = producer.block]
    /\ UNCHANGED <<boot, forkVars, canonVars, rx, gossipOut, searchOut, notChain>>

\* _produce_block, pow loop: a nonce that meets the difficulty is found and
\* the block is returned to _block_producer.
ProducerMineFound ==
    /\ producer.pc = "mine"
    /\ producer.block.number <= MaxMined
    /\ producer' = [ProducerAt("confirm") EXCEPT !.block = Mined(producer.block),
                                                 !.cur = Mined(producer.block)]
    /\ UNCHANGED <<boot, forkVars, canonVars, rx, gossipOut, searchOut, notChain>>

\* _produce_block, pow loop: the chain tip has changed, None is returned.
ProducerMineAbort ==
    /\ producer.pc = "mine"
    /\ highest_block # producer.tip_block
    /\ producer' = ProducerAt("start")
    /\ UNCHANGED <<boot, forkVars, canonVars, rx, gossipOut, searchOut, notChain>>

\* fork_manager.produce_block(block), one iteration of the confirmation per
\* step; after the last, gossip.broadcast of bc:new_block.
ProducerConfirm ==
    /\ producer.pc = "confirm"
    /\ ConfirmIteration(producer.cur, producer.block)
    /\ IF ConfirmDone(producer.cur)
       THEN IF TipWins(producer.block)
            THEN /\ producer' = [producer EXCEPT !.pc = "tip"]
                 /\ UNCHANGED gossipOut
            ELSE /\ producer' = ProducerAt("start")
                 /\ GossipBroadcastEffect(LocalNode, BlockMessage(producer.block),
                                          datagrams)
       ELSE /\ producer' =
                 IF GetKnownBlock(producer.cur.parent_hash, known_blocks) = NoBlock
                 THEN Dead("get_parent")
                 ELSE [producer EXCEPT
                         !.cur = GetKnownBlock(producer.cur.parent_hash, known_blocks)]
            /\ UNCHANGED gossipOut
    /\ UNCHANGED <<boot, known_blocks, canonVars, rx, searchOut, notChain>>

\* The producer thread in _update_chain_tip, the assignment to
\* highest_block; produce_block returns and the block is broadcast.
ProducerSetTip ==
    /\ producer.pc = "tip"
    /\ highest_block' = producer.block
    /\ producer' = ProducerAt("start")
    /\ GossipBroadcastEffect(LocalNode, BlockMessage(producer.block), datagrams)
    /\ UNCHANGED <<boot, block_storage, confirmed_blocks, known_blocks, canonVars,
                   rx, searchOut, notChain>>

\* ---- the blocks and search results that reach the node
\* The chain a remote miner builds on the genesis block.
RECURSIVE RemoteBlock(_)
RemoteBlock(height) ==
    IF height = 0 THEN Genesis
    ELSE Mk(height, RemoteNonce, Hash(RemoteBlock(height - 1)), NoTx)

\* A mined block whose number is not its parent's number + 1.
SkipBlock == Mk(RemoteBlock(1).number + 2, RemoteNonce, Hash(RemoteBlock(1)), NoTx)
\* A mined block that holds a transaction whose signature does not verify.
InvalidTxBlock == Mk(1, RemoteNonce, Hash(Genesis), InvalidTx)
\* A block that does not meet the difficulty.
UnminedBlock == Mk(1, UnminedNonce, Hash(Genesis), NoTx)

\* A mined block whose parent does not meet the difficulty.
UnminedChild == Mk(UnminedBlock.number + 1, RemoteNonce, Hash(UnminedBlock), NoTx)

\* A mined block of number 0 that is not the genesis block.
OtherGenesis == Mk(Genesis.number, RemoteNonce, ZeroHash, NoTx)

ReceivedBlocks ==
    {RemoteBlock(h) : h \in 1..MaxHeight}
        \cup {SkipBlock, InvalidTxBlock, UnminedBlock, UnminedChild, OtherGenesis}

InitChain ==
    /\ now = 0
    /\ InitGossipState
    /\ InitPeerState
    /\ InitSearchState
    /\ InitChainState
    /\ InitRestState
    /\ peers = [n \in Nodes |-> {}]

NextChain ==
    \/ CreateGenesis
    \/ \E b \in ReceivedBlocks : HandleNewBlock(Serialize(b))
    \/ \E q \in QueryIds, b \in ReceivedBlocks : HandleBlockResponse(q, Serialize(b))
    \/ RxConfirm
    \/ RxSetTip
    \/ ProducerStart
    \/ ProducerApply
    \/ ProducerSaveNum
    \/ ProducerSaveLatest
    \/ ProducerMineFound
    \/ ProducerMineAbort
    \/ ProducerConfirm
    \/ ProducerSetTip

SpecChain == InitChain /\ [][NextChain]_vars

StoredBlocks == {Deserialize(item[2]) : item \in block_storage}

\* C3: in every reachable state of the block storage, every persisted block
\* B with number N > 0 has its parent persisted: a persisted block whose
\* hash is B.parent_hash and whose number is N - 1.
C3_ParentPersisted ==
    \A b \in StoredBlocks :
        b.number > 0 =>
            \E p \in StoredBlocks : Hash(p) = b.parent_hash /\ p.number = b.number - 1

\* C4: blocknum/latest never decreases: every write to it stores a number
\* greater than or equal to the value it replaces.
C4_LatestNeverDecreases == [][blocknum_latest' >= blocknum_latest]_vars

\* C8: when apply_block raises inside update_canonical, the block producer
\* abandons the cycle and stays alive: its thread is never ended by that
\* error.
C8_ProducerSurvivesApplyError ==
    ~(producer.pc = "dead" /\ producer.error = "apply_block")

\* A block that holds a transaction failing validation, or whose number is
\* not the number of its parent + 1.
InvalidTransition(b) == b.txs = InvalidTx
BadAncestry(b) ==
    /\ GetKnownBlock(b.parent_hash, known_blocks) # NoBlock
    /\ b.number # GetKnownBlock(b.parent_hash, known_blocks).number + 1

\* C9: a block with an invalid state transition or with bad ancestry is
\* never confirmed: its hash is not in confirmed_blocks and it is not
\* written to the block namespace.
C9_InvalidNeverConfirmed ==
    \A b \in StoredBlocks \cup {Deserialize(h) : h \in confirmed_blocks} :
        ~InvalidTransition(b) /\ ~BadAncestry(b)

\* C10: for every height N from 0 to blocknum/latest, blockstate/N is
\* present with block_number N and with the block_hash that blocknum/N holds.
C10_StateMatchesIndex ==
    \A N \in 0..blocknum_latest :
        /\ StorageExists(blockstate_storage, N)
        /\ StorageExists(blocknum_storage, N)
        /\ StorageLoad(blockstate_storage, N).block_number = N
        /\ StorageLoad(blockstate_storage, N).block_hash = StorageLoad(blocknum_storage, N)

\* C11: once blockstate/N has been written, no later step of
\* update_canonical replaces it with a different value.
C11_SnapshotNeverRewritten ==
    [][\A N \in DictKeys(blockstate_storage) :
          /\ StorageExists(blockstate_storage', N)
          /\ StorageLoad(blockstate_storage', N) = StorageLoad(blockstate_storage, N)]_vars

\* The blocks of the branch that ends in tip: tip and its ancestors.
RECURSIVE Branch(_)
Branch(tip) ==
    IF tip = NoBlock THEN {}
    ELSE {tip} \cup Branch(GetKnownBlock(tip.parent_hash, known_blocks))

\* C12: when update_canonical has returned normally for the highest block
\* it read (the producer is past it, in the pow loop), blocknum/latest is
\* that block's number, blocknum/<latest> is its hash, and for every height
\* N >= 1 of its branch, so for every N above the common ancestor,
\* blocknum/<N> names the block of that branch.
C12_CanonicalFollowsHighest ==
    (producer.pc = "mine" /\ producer.tip_block # NoBlock) =>
        /\ blocknum_latest = producer.tip_block.number
        /\ \A b \in Branch(producer.tip_block) :
              /\ StorageExists(blocknum_storage, b.number)
              /\ StorageLoad(blocknum_storage, b.number) = Hash(b)

\* update_canonical has returned after moving the canonical chain from the
\* locally mined block 1 to the remote branch of height 2.
C12_Witness ==
    /\ producer.pc = "mine"
    /\ producer.tip_block = RemoteBlock(2)
    /\ highest_block = producer.tip_block
    /\ blocknum_latest = 2
    /\ StorageLoad(blocknum_storage, 1) = Hash(RemoteBlock(1))
    /\ StorageExists(block_storage, Hash(Mk(1, LocalNonce, Hash(Genesis), NoTx)))
    /\ latest_num = 2

(***************************************************************************)
(* Ancestor backfill: the node holds only genesis, the highest block of    *)
(* the remote chain reaches it by gossip once, and every parent search is  *)
(* answered with the block that was asked for.  The block producer runs    *)
(* as always.                                                              *)
(***************************************************************************)
\* The received block: as high as the searches allowed can backfill.
TipHeight == MaxSearches + 1
Tip == RemoteBlock(TipHeight)

\* bc:new_block ingress of the tip; gossip hands over an identifier once.
ReceiveTip ==
    /\ ~IsKnownBlock(Hash(Tip), known_blocks)
    /\ HandleNewBlock(Serialize(Tip))

\* The search:response to query q that carries the block asked for.
AnswerQuery(q) ==
    \E b \in ReceivedBlocks :
        /\ Hash(b) = resolvers[q].cur.parent_hash
        /\ HandleBlockResponse(q, Serialize(b))

ProducerStep ==
    \/ ProducerStart
    \/ ProducerApply
    \/ ProducerSaveNum
    \/ ProducerSaveLatest
    \/ ProducerMineFound
    \/ ProducerMineAbort
    \/ ProducerConfirm
    \/ ProducerSetTip

NextBackfill ==
    \/ CreateGenesis
    \/ ReceiveTip
    \/ \E q \in QueryIds : AnswerQuery(q)
    \/ RxConfirm
    \/ RxSetTip
    \/ ProducerStep

\* The threads keep running, and every pending query is answered.
FairBackfill ==
    /\ WF_vars(CreateGenesis)
    /\ WF_vars(RxConfirm)
    /\ WF_vars(RxSetTip)
    /\ WF_vars(ProducerStep)
    /\ \A q \in QueryIds : SF_vars(AnswerQuery(q))

SpecBackfill == InitChain /\ [][NextBackfill]_vars /\ FairBackfill

TipReceived == Hash(Tip) \in DictKeys(known_blocks)
ChainPersisted ==
    \A h \in 1..TipHeight : StorageExists(block_storage, Hash(RemoteBlock(h)))
TipCanonical ==
    /\ blocknum_latest >= TipHeight
    /\ StorageExists(blocknum_storage, TipHeight)
    /\ StorageLoad(blocknum_storage, TipHeight) = Hash(Tip)

\* C13 as stated: once the height-n block is received, eventually blocks
\* 1..n are persisted and highest_block is the height-n block, and then the
\* canonical chain reaches it (blocknum/latest = n, blocknum/n names it).
C13_BackfillMakesTipHighest ==
    /\ TipReceived ~> (ChainPersisted /\ highest_block = Tip)
    /\ TipReceived ~> TipCanonical

\* Whatever the two threads do to highest_block, once the height-n block is
\* received blocks 1..n are eventually persisted.
BackfillPersistsBlocks == TipReceived ~> ChainPersisted

\* The backfill has ended with the received block as highest block and as
\* canonical tip, a search having been issued for its parent.
C13_Witness ==
    /\ issued # {}
    /\ ChainPersisted
    /\ highest_block = Tip
    /\ TipCanonical

\* C14: on search:response ingress the handler of a pending query is called
\* with the result; a true return removes the entry and the handler is not
\* called again for that query, by a response or by the timeout; a false or
\* null return keeps the entry, so that a later response calls the handler
\* again; a response for a query that is not pending calls nothing.
C14_ResponseHandling ==
    /\ [](\A q \in QueryIds :
            \A i \in 1..Len(response_calls[q]) :
                response_calls[q][i] => (i = Len(response_calls[q])
                                         /\ q \notin DictKeys(queries)))
    /\ [][\A q \in QueryIds :
            /\ response_calls'[q] = Append(response_calls[q], TRUE)
                  => q \in DictKeys(queries) /\ q \notin DictKeys(queries')
            /\ response_calls'[q] = Append(response_calls[q], FALSE)
                  => q \in DictKeys(queries) /\ q \in DictKeys(queries')
            /\ q \notin DictKeys(queries)
                  => response_calls'[q] = response_calls[q]
            /\ (response_calls[q] # <<>> /\ response_calls[q][Len(response_calls[q])])
                  => /\ timeout_calls'[q] = timeout_calls[q]
                     /\ response_calls'[q] = response_calls[q]]_vars

\* A query whose handler declined a first response and accepted a second,
\* after which the cleanup pass ran without calling it.
C14_Witness ==
    \E q \in QueryIds :
        /\ response_calls[q] = <<FALSE, TRUE>>
        /\ q \notin DictKeys(queries)
        /\ search_cleanup = "done"
        /\ timeout_calls[q] = 0

(***************************************************************************)
(* The validator (class Blockchain) called on full states.                 *)
(***************************************************************************)
\* dict.get(key, 0) and dict.setdefault(key, 0).
Get(d, key) == IF key \in DictKeys(d) THEN DictGet(d, key) ELSE 0
SetDefault(d, key) == IF key \in DictKeys(d) THEN d ELSE d \cup {<<key, 0>>}

\* The three setdefault calls of _apply_transaction.
WithDefaults_Untouched(tx, s) == s
WithDefaults(tx, s) ==
    [s EXCEPT !.balances = SetDefault(SetDefault(@, tx.sender), tx.receiver),
              !.nonces = SetDefault(@, tx.sender)]

\* The debit, the credit and the nonce increment of _apply_transaction.
Transfer_NoNonce(tx, s) ==
    LET debited == DictSet(s.balances, tx.sender,
                           DictGet(s.balances, tx.sender) - tx.amount)
    IN [s EXCEPT !.balances = DictSet(debited, tx.receiver,
                                      DictGet(debited, tx.receiver) + tx.amount)]
\* The debit and the nonce increment with no credit to the receiver.
Transfer_NoCredit(tx, s) ==
    [s EXCEPT !.balances = DictSet(@, tx.sender, DictGet(@, tx.sender) - tx.amount),
              !.nonces = DictSet(@, tx.sender, DictGet(@, tx.sender) + 1)]
Transfer(tx, s) ==
    LET debited == DictSet(s.balances, tx.sender,
                           DictGet(s.balances, tx.sender) - tx.amount)
    IN [s EXCEPT !.balances = DictSet(debited, tx.receiver,
                                      DictGet(debited, tx.receiver) + tx.amount),
                 !.nonces = DictSet(@, tx.sender, DictGet(@, tx.sender) + 1)]

\* _apply_transaction with no comparison of the nonce.
ApplyTransaction_NoNonceCheck(tx, s) ==
    IF tx.sig = "error" THEN [ret |-> "raise", state |-> s]
    ELSE IF tx.sig = "invalid" THEN [ret |-> "False", state |-> s]
    ELSE LET d == WithDefaults(tx, s)
         IN IF DictGet(d.balances, tx.sender) < tx.amount
            THEN [ret |-> "False", state |-> d]
            ELSE [ret |-> "True", state |-> Transfer(tx, d)]

\* _apply_transaction(tx, state): what it returns and the state it leaves.
ApplyTransaction(tx, s) ==
    IF tx.sig = "error" THEN [ret |-> "raise", state |-> s]
    ELSE IF tx.sig = "invalid" THEN [ret |-> "False", state |-> s]
    ELSE LET d == WithDefaults(tx, s)
         IN IF DictGet(d.nonces, tx.sender) # tx.nonce
            THEN [ret |-> "False", state |-> d]
            ELSE IF DictGet(d.balances, tx.sender) < tx.amount
            THEN [ret |-> "False", state |-> d]
            ELSE [ret |-> "True", state |-> Transfer(tx, d)]

\* One call of _apply_transaction on the state under observation.
CallApplyTransaction(tx) ==
    /\ vret = "none"
    /\ vcall' = [fn |-> "_apply_transaction", tx |-> tx]
    /\ vstate' = ApplyTransaction(tx, vpre).state
    /\ vret' = ApplyTransaction(tx, vpre).ret
    /\ UNCHANGED <<now, gossipVars, peers, peerVars, searchVars, chainVars, vpre,
                   vblock, mempoolVars, extraVars>>

InitValidator(states) ==
    /\ now = 0
    /\ InitGossipState
    /\ InitPeerState
    /\ InitSearchState
    /\ InitChainState
    /\ peers = [n \in Nodes |-> {}]
    /\ vpre \in states
    /\ vstate = vpre
    /\ vcall = NoCall
    /\ vret = "none"
    /\ vblock = NoFullBlock
    /\ InitMempoolState
    /\ InitExtraState

InitTx == InitValidator(FullStates)
NextTx == \E tx \in Txs : CallApplyTransaction(tx)
SpecTx == InitTx /\ [][NextTx]_vars

IsTxCall == vcall.fn = "_apply_transaction"

\* C15: when _apply_transaction rejects a transaction, the balances and the
\* nonces of the state are what they were before the call: no key is added
\* and no value is changed.
C15_RejectionLeavesState ==
    (IsTxCall /\ vret = "False") =>
        vstate.balances = vpre.balances /\ vstate.nonces = vpre.nonces

\* The balance and the nonce of every address before and after, absent = 0.
BalanceDelta(a) == Get(vstate.balances, a) - Get(vpre.balances, a)
NonceDelta(a) == Get(vstate.nonces, a) - Get(vpre.nonces, a)

TxValidAt(tx, s) ==
    /\ tx.sig = "valid"
    /\ Get(s.nonces, tx.sender) = tx.nonce
    /\ Get(s.balances, tx.sender) >= tx.amount

\* C16: _apply_transaction succeeds exactly when the signature verifies, the
\* sender's nonce (absent = 0) equals tx.nonce and the sender's balance
\* (absent = 0) is at least tx.amount; on success the state differs only by
\* sender nonce + 1, sender balance - amount and receiver balance + amount.
C16_ApplyTransaction ==
    IsTxCall =>
        /\ (vret = "True") <=> TxValidAt(vcall.tx, vpre)
        /\ (vret = "True") =>
            /\ vstate.block_number = vpre.block_number
            /\ vstate.block_hash = vpre.block_hash
            /\ \A a \in Addresses :
                /\ NonceDelta(a) = (IF a = vcall.tx.sender THEN 1 ELSE 0)
                /\ BalanceDelta(a) =
                       (IF a = vcall.tx.receiver THEN vcall.tx.amount ELSE 0)
                       - (IF a = vcall.tx.sender THEN vcall.tx.amount ELSE 0)
            /\ DictKeys(vstate.balances) \subseteq
                   DictKeys(vpre.balances) \cup {vcall.tx.sender, vcall.tx.receiver}
            /\ DictKeys(vstate.nonces) \subseteq
                   DictKeys(vpre.nonces) \cup {vcall.tx.sender}

C16_Witness ==
    /\ IsTxCall
    /\ vret = "True"
    /\ vcall.tx.amount > 0
    /\ vcall.tx.sender # vcall.tx.receiver
    /\ vcall.tx.receiver \notin DictKeys(vpre.balances)
    /\ vcall.tx.nonce > 0

(***************************************************************************)
(* apply_block on full states and on blocks that carry a coinbase and a    *)
(* list of transactions.                                                   *)
(***************************************************************************)
\* Block.serialize and Block.calculate_hash with coinbase and transactions.
BlockSerialize(b) == <<b.number, b.nonce, b.parent_hash, b.coinbase, b.transactions>>
BlockHash(b) == BlockSerialize(b)

\* The credit of the block reward to the coinbase, then the new tip.
Reward_None(b, s) ==
    [s EXCEPT !.block_number = b.number, !.block_hash = BlockHash(b)]
Reward(b, s) ==
    [s EXCEPT !.balances = DictSet(@, b.coinbase, Get(@, b.coinbase) + BlockReward),
              !.block_number = b.number, !.block_hash = BlockHash(b)]

\* The loop of apply_block over block.transactions from index i on: the
\* state it leaves, and whether it ended by an exception.
RECURSIVE ApplyAll(_, _, _)
ApplyAll(txs, i, s) ==
    IF i > Len(txs) THEN [ret |-> "None", state |-> s]
    ELSE LET r == ApplyTransaction(txs[i], s)
         IN IF r.ret # "True" THEN [ret |-> "raise", state |-> r.state]
            ELSE ApplyAll(txs, i + 1, r.state)

\* Blockchain.apply_block(block, state).
ValidatorApplyBlock(b, s) ==
    IF b.number # s.block_number + 1 THEN [ret |-> "raise", state |-> s]
    ELSE IF b.parent_hash # s.block_hash THEN [ret |-> "raise", state |-> s]
    ELSE IF ~HasDifficulty(b) THEN [ret |-> "raise", state |-> s]
    ELSE LET r == ApplyAll(b.transactions, 1, s)
         IN IF r.ret = "raise" THEN r
            ELSE [ret |-> "None", state |-> Reward(b, r.state)]

CallApplyBlock(b) ==
    /\ vret = "none"
    /\ vcall' = [fn |-> "apply_block", block |-> b]
    /\ vstate' = ValidatorApplyBlock(b, vpre).state
    /\ vret' = ValidatorApplyBlock(b, vpre).ret
    /\ UNCHANGED <<now, gossipVars, peers, peerVars, searchVars, chainVars, vpre,
                   vblock, mempoolVars, extraVars>>

\* The inputs of the block calls.
BlockTxs ==
    [sender : Addresses, receiver : Addresses, nonce : 0..MaxNonce,
     amount : {MaxAmount}, sig : {"valid", "invalid"}]
\* The lists of no, one and two transactions.
TxLists ==
    {<<>>} \cup {<<tx>> : tx \in BlockTxs} \cup {<<tx, next>> : tx, next \in BlockTxs}
FullBlocks ==
    {FullBlock(number, nonce, parent_hash, coinbase, txs) :
        number \in {1, 2}, nonce \in {LocalNonce, UnminedNonce},
        parent_hash \in {Hash(Genesis), ZeroHash}, coinbase \in Addresses,
        txs \in TxLists}
BlockStates ==
    [block_number : {0}, block_hash : {Hash(Genesis)},
     balances : DictsOver({MaxAmount}), nonces : DictsOver({0})]

InitBlock == InitValidator(BlockStates)
NextBlock == \E b \in FullBlocks : CallApplyBlock(b)
SpecBlock == InitBlock /\ [][NextBlock]_vars

IsBlockCall == vcall.fn = "apply_block"

\* The ledger the claim describes: balances and nonces as total functions
\* (absent = 0), a transaction applying when it is valid at the ledger.
LedgerOf(s) ==
    [ok |-> TRUE,
     bal |-> [a \in Addresses |-> Get(s.balances, a)],
     non |-> [a \in Addresses |-> Get(s.nonces, a)]]
LedgerValid(tx, l) ==
    tx.sig = "valid" /\ l.non[tx.sender] = tx.nonce /\ l.bal[tx.sender] >= tx.amount
LedgerApply(tx, l) ==
    LET debited == [l.bal EXCEPT ![tx.sender] = @ - tx.amount]
    IN [l EXCEPT !.bal = [debited EXCEPT ![tx.receiver] = @ + tx.amount],
                 !.non = [@ EXCEPT ![tx.sender] = @ + 1]]
RECURSIVE LedgerAfter(_, _, _)
LedgerAfter(txs, i, l) ==
    IF i > Len(txs) THEN l
    ELSE IF ~LedgerValid(txs[i], l) THEN [l EXCEPT !.ok = FALSE]
    ELSE LedgerAfter(txs, i + 1, LedgerApply(txs[i], l))

BlockAccepted(b, s) ==
    /\ b.number = s.block_number + 1
    /\ b.parent_hash = s.block_hash
    /\ HasDifficulty(b)
    /\ LedgerAfter(b.transactions, 1, LedgerOf(s)).ok

\* C17: apply_block raises unless the number, the parent hash and the
\* difficulty are right and every transaction applies in list order; on
\* success the state is the transactions applied in order, then the reward
\* added to the coinbase, then block_number and block_hash those of the block,
\* so no transaction of the block spends the block's own reward.
C17_ApplyBlock ==
    IsBlockCall =>
        LET b == vcall.block
            l == LedgerAfter(b.transactions, 1, LedgerOf(vpre))
        IN /\ (vret = "raise") <=> ~BlockAccepted(b, vpre)
           /\ (vret # "raise") =>
                /\ vret = "None"
                /\ vstate.block_number = b.number
                /\ vstate.block_hash = BlockHash(b)
                /\ \A a \in Addresses :
                    /\ Get(vstate.nonces, a) = l.non[a]
                    /\ Get(vstate.balances, a) =
                           l.bal[a] + (IF a = b.coinbase THEN BlockReward ELSE 0)

\* A block of two transactions, the second valid only after the first, is
\* applied; a block whose coinbase spends without funds has been refused.
C17_Witness ==
    /\ IsBlockCall
    /\ vret = "None"
    /\ Len(vcall.block.transactions) = 2
    /\ ~LedgerValid(vcall.block.transactions[2], LedgerOf(vpre))

C17_RewardNotSpendable ==
    /\ IsBlockCall
    /\ vret = "raise"
    /\ Len(vcall.block.transactions) = 1
    /\ vcall.block.transactions[1].sender = vcall.block.coinbase
    /\ vcall.block.transactions[1].sig = "valid"
    /\ Get(vpre.nonces, vcall.block.coinbase) = vcall.block.transactions[1].nonce
    /\ Get(vpre.balances, vcall.block.coinbase) < vcall.block.transactions[1].amount

(***************************************************************************)
(* build_block on a full state and a mempool.                              *)
(***************************************************************************)
Elements(seq) == {seq[i] : i \in 1..Len(seq)}

\* Mempool.evict_transaction: the pops from _transactions and _last_seen.
EvictFrom(pool, tx) == SelectSeq(pool, LAMBDA other : other # tx)
Forget(seen, tx) == IF tx \in DictKeys(seen) THEN DictDel(seen, tx) ELSE seen

\* The test that ends the loop of build_block.
AtLimit_OffByOne(count) == count > MaxTransactionsPerBlock
AtLimit(count) == count >= MaxTransactionsPerBlock

\* The loop with no test of what _apply_transaction returned: every examined
\* transaction is appended to the block.
RECURSIVE BuildLoop_KeepsRejected(_, _, _)
BuildLoop_KeepsRejected(txs, i, acc) ==
    IF i > Len(txs) THEN acc
    ELSE LET r == ApplyTransaction(txs[i], acc.state)
             next == [acc EXCEPT !.state = r.state,
                                 !.transactions = Append(@, txs[i])]
         IN IF r.ret = "raise" THEN [acc EXCEPT !.ret = "raise", !.state = r.state]
            ELSE IF AtLimit(Len(next.transactions)) THEN next
            ELSE BuildLoop_KeepsRejected(txs, i + 1, next)

\* The loop of build_block over the list get_transactions() returned, from
\* index i on.  acc holds the state, the mempool and the block's list.
RECURSIVE BuildLoop(_, _, _)
BuildLoop(txs, i, acc) ==
    IF i > Len(txs) THEN acc
    ELSE LET r == ApplyTransaction(txs[i], acc.state)
             next == IF r.ret = "True"
                     THEN [acc EXCEPT !.state = r.state,
                                      !.transactions = Append(@, txs[i])]
                     ELSE [acc EXCEPT !.state = r.state,
                                      !.pool = EvictFrom(@, txs[i]),
                                      !.seen = Forget(@, txs[i])]
         IN IF r.ret = "raise" THEN [acc EXCEPT !.ret = "raise", !.state = r.state]
            ELSE IF AtLimit(Len(next.transactions)) THEN next
            ELSE BuildLoop(txs, i + 1, next)

\* Blockchain.build_block(state, coinbase, mempool): the block is not mined
\* yet, its nonce is the initial one.
ValidatorBuildBlock(s, coinbase, pool, seen) ==
    LET r == BuildLoop(pool, 1, [ret |-> "block", state |-> s, pool |-> pool,
                                 seen |-> seen, transactions |-> <<>>])
    IN [r EXCEPT !.transactions =
            FullBlock(s.block_number + 1, 0, s.block_hash, coinbase, @)]

CallBuildBlock(coinbase) ==
    /\ vret = "none"
    /\ LET r == ValidatorBuildBlock(vpre, coinbase, mp_transactions, mp_last_seen)
       IN /\ vcall' = [fn |-> "build_block", coinbase |-> coinbase,
                       pool |-> mp_transactions]
          /\ vstate' = r.state
          /\ vret' = r.ret
          /\ vblock' = IF r.ret = "raise" THEN NoFullBlock ELSE r.transactions
          /\ mp_transactions' = r.pool
          /\ mp_last_seen' = r.seen
    /\ UNCHANGED <<now, gossipVars, peers, peerVars, searchVars, chainVars, vpre,
                   mp_cleanup, extraVars>>

\* The mempools of the build calls: up to MaxPool transactions.  The good
\* ones are the sender's next transactions, each valid after the ones before
\* it; at most two others are one that raises, one with a wrong nonce, one
\* above the balance or one with a bad signature, by their place.
GoodTx(count) ==
    [sender |-> "a", receiver |-> "b", nonce |-> count, amount |-> 0, sig |-> "valid"]
BadTx(i) ==
    CASE i % 4 = 0 -> [sender |-> "a", receiver |-> "b", nonce |-> i, amount |-> 0,
                       sig |-> "error"]
      [] i % 4 = 1 -> [sender |-> "b", receiver |-> "a", nonce |-> i, amount |-> 0,
                       sig |-> "valid"]
      [] i % 4 = 2 -> [sender |-> "b", receiver |-> "a", nonce |-> 0,
                       amount |-> MaxAmount + i, sig |-> "valid"]
      [] OTHER -> [sender |-> "a", receiver |-> "b", nonce |-> i, amount |-> 0,
                   sig |-> "invalid"]
Pool(len, bad) ==
    [i \in 1..len |->
        IF i \in bad THEN BadTx(i)
        ELSE GoodTx(Cardinality({j \in 1..(i - 1) : j \notin bad}))]
Pools ==
    UNION {{Pool(len, bad) : bad \in {some \in SUBSET (1..len) : Cardinality(some) <= 2}} :
           len \in 0..MaxPool}

InitBuild ==
    /\ now = 0
    /\ InitGossipState
    /\ InitPeerState
    /\ InitSearchState
    /\ InitChainState
    /\ peers = [n \in Nodes |-> {}]
    /\ vpre \in BlockStates
    /\ vstate = vpre
    /\ vcall = NoCall
    /\ vret = "none"
    /\ vblock = NoFullBlock
    /\ mp_transactions \in Pools
    /\ mp_last_seen = {<<tx, 0>> : tx \in Elements(mp_transactions)}
    /\ mp_cleanup = [pc |-> "idle", now |-> 0]
    /\ InitExtraState
NextBuild == \E coinbase \in Addresses : CallBuildBlock(coinbase)
SpecBuild == InitBuild /\ [][NextBuild]_vars

BlockBuilt == vcall.fn = "build_block" /\ vret = "block"

\* C18: build_block returns a block with number S.block_number + 1, parent
\* hash S.block_hash, the given coinbase and at most 10 transactions in the
\* mempool's insertion order; every transaction it examined is in the block
\* or evicted, and the ones it did not examine are still in the mempool.
C18_BuildBlock ==
    BlockBuilt =>
        LET pool == vcall.pool
            txs == vblock.transactions
        IN /\ vblock.number = vpre.block_number + 1
           /\ vblock.parent_hash = vpre.block_hash
           /\ vblock.coinbase = vcall.coinbase
           /\ Len(txs) <= MaxTransactionsPerBlock
           /\ txs = SelectSeq(pool, LAMBDA tx : tx \in Elements(txs))
           /\ \E examined \in 0..Len(pool) :
                /\ examined = Len(pool) \/ Len(txs) = MaxTransactionsPerBlock
                /\ \A i \in 1..examined :
                    \/ pool[i] \in Elements(txs)
                    \/ pool[i] \notin Elements(mp_transactions)
                /\ \A i \in (examined + 1)..Len(pool) :
                    /\ pool[i] \in Elements(mp_transactions)
                    /\ pool[i] \notin Elements(txs)

\* The limit ended the loop: transactions were left unexamined, and one
\* examined before was evicted.
C18_Witness ==
    /\ BlockBuilt
    /\ Len(vblock.transactions) = MaxTransactionsPerBlock
    /\ Len(mp_transactions) < Len(vcall.pool)
    /\ vcall.pool[Len(vcall.pool)] \notin Elements(vblock.transactions)
    /\ vcall.pool[Len(vcall.pool)] \in Elements(mp_transactions)

(***************************************************************************)
(* Mempool (blockchain.py): insertion and the cleanup thread.              *)
(***************************************************************************)
notMempool == <<gossipVars, peers, peerVars, searchVars, chainVars, validatorVars,
                extraVars>>

\* The transactions that reach the mempool here.
MempoolTxs == {GoodTx(0), GoodTx(1)}

\* Mempool.start: the thread begins and reads time.time() into its local
\* variable now, before its loop.
MempoolStart ==
    /\ mp_cleanup.pc = "idle"
    /\ mp_cleanup' = [pc |-> "running", now |-> now]
    /\ UNCHANGED <<now, mp_transactions, mp_last_seen, notMempool>>

\* Mempool.add_transaction(tx), from announce_transaction or _handle_new_tx.
AddTransaction(tx) ==
    /\ mp_transactions' = IF tx \in Elements(mp_transactions) THEN mp_transactions
                          ELSE Append(mp_transactions, tx)
    /\ mp_last_seen' = DictSet(mp_last_seen, tx, now)
    /\ UNCHANGED <<now, mp_cleanup, notMempool>>

\* The test of _cleanup_loop on one transaction: at is the thread's local now.
TxExpired(seen, at) == seen + MempoolTimeout < at

\* One pass of the loop of _cleanup_loop, followed by its sleep.  The local
\* now is the one read when the thread began.
MempoolCleanupPass ==
    /\ mp_cleanup.pc = "running"
    /\ LET stale == {tx \in Elements(mp_transactions) :
                        TxExpired(DictGet(mp_last_seen, tx), mp_cleanup.now)}
       IN /\ mp_transactions' = SelectSeq(mp_transactions, LAMBDA tx : tx \notin stale)
          /\ mp_last_seen' = {item \in mp_last_seen : item[1] \notin stale}
    /\ UNCHANGED <<now, mp_cleanup, notMempool>>

\* Time passes, in units of the mempool timeout.
MempoolTick == Advance(MempoolTimeout)

InitMempool ==
    /\ now = 0
    /\ InitGossipState
    /\ InitPeerState
    /\ InitSearchState
    /\ InitChainState
    /\ InitRestState
    /\ peers = [n \in Nodes |-> {}]
NextMempool ==
    \/ MempoolStart
    \/ \E tx \in MempoolTxs : AddTransaction(tx)
    \/ MempoolCleanupPass
    \/ MempoolTick

\* The cleanup thread keeps running its passes and time keeps passing.
FairMempool == WF_vars(MempoolCleanupPass) /\ WF_vars(MempoolTick)
SpecMempool == InitMempool /\ [][NextMempool]_vars /\ FairMempool

SeenAt(tx, at) == <<tx, at>> \in mp_last_seen
Times == {k * MempoolTimeout : k \in 0..MaxTicks}

\* C19: a transaction inserted after Mempool.start that stays in the mempool
\* and is not seen again is eventually evicted by the cleanup loop once more
\* than 60 s have passed since it was last seen.
C19_OldTransactionEvicted ==
    \A tx \in MempoolTxs : \A at \in Times :
        (/\ mp_cleanup.pc = "running"
         /\ mp_cleanup.now <= at
         /\ SeenAt(tx, at)
         /\ at + MempoolTimeout < now)
            ~> ~SeenAt(tx, at)

\* Why more time does not help: the test of the cleanup pass never holds for
\* a transaction last seen at or after the time the thread read, whatever
\* the clock shows.
InsertedAfterStartNeverExpires ==
    mp_cleanup.pc = "running" =>
        \A item \in mp_last_seen :
            mp_cleanup.now <= item[2] => ~TxExpired(item[2], mp_cleanup.now)

(***************************************************************************)
(* update_canonical called again.                                          *)
(***************************************************************************)
\* What a call of update_canonical made now would do before its loop.
UpdatePlan == DescendTip(highest_block, LatestBlock, <<>>)

\* A call of update_canonical made now reaches the writes of its loop.
UpdateWouldWrite ==
    /\ highest_block # NoBlock
    /\ LatestBlock # NoBlock
    /\ UpdatePlan.ok
    /\ LoadState(UpdatePlan.base.number) # NoState
    /\ UpdatePlan.todo # <<>>
    /\ ApplyBlockOk(UpdatePlan.todo[Len(UpdatePlan.todo)],
                    LoadState(UpdatePlan.base.number))

\* The step in which a call of update_canonical returns.
UpdateReturns ==
    /\ producer.pc \in {"start", "save_latest"}
    /\ producer'.pc = "mine"

\* C20 as stated: when a call of update_canonical returns, a second call made
\* on the highest block and the storage of that moment writes nothing.
C20_SecondCallWritesNothing ==
    [][UpdateReturns => ~UpdateWouldWrite']_vars

\* C20: when a call of update_canonical returns and the highest block is
\* still the one the call read when it began, a second call writes nothing:
\* blocknum, blockstate, latest_num and latest_hash stay as they are.
C20_SecondCallOnSameTipWritesNothing ==
    [][(UpdateReturns /\ highest_block' = producer'.tip_block)
          => ~UpdateWouldWrite']_vars

\* A call that moved the canonical chain to block 1 has returned, the
\* highest block is unchanged, and a second call would find nothing to do.
C20_Witness ==
    /\ producer.pc = "mine"
    /\ highest_block = producer.tip_block
    /\ highest_block.number = 1
    /\ latest_num = 1
    /\ blocknum_latest = 1
    /\ UpdatePlan.ok
    /\ UpdatePlan.todo = <<>>

(***************************************************************************)
(* The block namespace.                                                    *)
(***************************************************************************)
\* The entry of block_storage under key is the serialisation of a block that
\* hashes to key.
StoredUnderOwnHash(item) == Hash(Deserialize(item[2])) = item[1]

\* C21: every block in the block namespace is stored under the hash
\* of its own serialisation and meets the difficulty target.
C21_StoredBlocksMeetDifficulty ==
    \A item \in block_storage :
        StoredUnderOwnHash(item) /\ HasDifficulty(Deserialize(item[2]))

\* The genesis block is the only entry that does not meet the target: every
\* entry is stored under the hash of its own serialisation, and every block
\* but the genesis block meets the difficulty target.
StoredBlocksButGenesisMeetDifficulty ==
    \A item \in block_storage :
        /\ StoredUnderOwnHash(item)
        /\ Deserialize(item[2]) # Genesis => HasDifficulty(Deserialize(item[2]))

(***************************************************************************)
(* Dispatch of a received datagram.                                        *)
(***************************************************************************)
\* C22: when a received datagram decodes to a kind with a registered handler,
\* dispatch invokes the handler with the message and the sender, so the
\* handler runs on receipt: a gossip:send datagram that leaves the wire has
\* had its _handle_send run at the node it was sent to.
C22_DispatchRunsHandler ==
    [][\A d \in datagrams :
          (d \notin datagrams' /\ d.kind \in DOMAIN RegisteredParams)
              => Ident(d.msg) \in ingress'[d.to]]_vars

(***************************************************************************)
(* The handler registries: UDPMessaging.register, Gossip.register and      *)
(* Search.register.                                                        *)
(***************************************************************************)
notRegistry == <<now, gossipVars, peers, peerVars, searchVars, chainVars,
                 validatorVars, mempoolVars, bcast, mp_calls>>
Kinds == {"gossip:send", "p2p:ping"}
HandlerIds == {1, 2}

\* The body the three register methods share: raise ValueError when the kind
\* has a handler, else store the handler.
RegisterIn_Overwrite(d, kind, handler) ==
    [ret |-> "None", dict |-> DictSet(d, kind, handler)]
RegisterIn(d, kind, handler) ==
    IF kind \in DictKeys(d) THEN [ret |-> "raise", dict |-> d]
    ELSE [ret |-> "None", dict |-> DictSet(d, kind, handler)]

RegisterCall(registry, kind, handler) ==
    /\ registries' = [registries EXCEPT
           ![registry] = RegisterIn(@, kind, handler).dict]
    /\ reg_last' = [registry |-> registry, kind |-> kind, handler |-> handler,
                    ret |-> RegisterIn(registries[registry], kind, handler).ret,
                    before |-> registries[registry]]
    /\ UNCHANGED notRegistry

MessagingRegister(kind, handler) == RegisterCall("messaging", kind, handler)
GossipRegister(kind, handler) == RegisterCall("gossip", kind, handler)
SearchRegister(kind, searcher) == RegisterCall("search", kind, searcher)

InitRegister ==
    /\ now = 0
    /\ InitGossipState
    /\ InitPeerState
    /\ InitSearchState
    /\ InitChainState
    /\ InitRestState
    /\ peers = [n \in Nodes |-> {}]
NextRegister ==
    \E kind \in Kinds, handler \in HandlerIds :
        \/ MessagingRegister(kind, handler)
        \/ GossipRegister(kind, handler)
        \/ SearchRegister(kind, handler)
SpecRegister == InitRegister /\ [][NextRegister]_vars

\* C23: registering a handler for a kind that already has one fails with an
\* error and leaves the existing handler in place, in the messaging, the
\* gossip and the searcher registry.
C23_DuplicateRegistrationFails ==
    (reg_last.registry \in Registries /\ reg_last.kind \in DictKeys(reg_last.before))
        => /\ reg_last.ret = "raise"
           /\ registries[reg_last.registry] = reg_last.before

\* A second searcher, another one, was offered for a kind and refused.
C23_Witness ==
    /\ reg_last.registry = "search"
    /\ reg_last.ret = "raise"
    /\ DictGet(reg_last.before, reg_last.kind) # reg_last.handler
    /\ DictGet(registries["search"], reg_last.kind) # reg_last.handler

(***************************************************************************)
(* The chain tip under the two threads that run _update_chain_tip.         *)
(***************************************************************************)
\* C24: highest_block is only ever replaced by a confirmed block with a
\* strictly greater number, so its number never decreases, under every
\* interleaving of the producer thread and the receive thread.
C24_TipNeverDecreases ==
    [][(highest_block # NoBlock /\ highest_block' # highest_block)
          => /\ IsConfirmedBlock(Hash(highest_block'))
             /\ highest_block'.number > highest_block.number]_vars

\* ---- the parent search of the fork manager

\* A step in which the resolver of pending query q accepts a parent block:
\* the block asked for enters known_blocks and _add_block_and_ancestors runs
\* again for the block the search was issued for (it starts confirming that
\* block, or issues the search for the next unknown parent).
ResolverAccepts(q) ==
    /\ q \in DictKeys(queries)
    /\ resolvers[q].cur.parent_hash \notin DictKeys(known_blocks)
    /\ resolvers[q].cur.parent_hash \in DictKeys(known_blocks')
    /\ \/ rx'.pc = "confirm" /\ rx'.block = resolvers[q].block
       \/ \E n \in issued' \ issued : resolvers'[n].block = resolvers[q].block

\* C25: when the resolver has accepted a parent block for a query, the
\* query's entry does not stay in the pending table (so that later responses
\* with the same query_id reach no resolver).
C25_AcceptedSearchIsFinished ==
    [][\A q \in QueryIds : ResolverAccepts(q) => q \notin DictKeys(queries')]_vars

\* A step in which the resolver of pending query q inserts block b into
\* known_blocks: b is new there, and what runs next is
\* _add_block_and_ancestors for the block the search was issued for (a
\* bc:new_block that inserts b runs it for b itself).
ResolverInserts(q, b) ==
    /\ q \in DictKeys(queries)
    /\ Hash(b) \notin DictKeys(known_blocks)
    /\ Hash(b) \in DictKeys(known_blocks')
    /\ \/ rx'.pc = "confirm" /\ rx'.block = resolvers[q].block
       \/ \E n \in issued' \ issued : resolvers'[n].block = resolvers[q].block

\* C26: the resolver inserts a search result into known_blocks only if its
\* recomputed hash is the parent hash asked for, its number is the child's
\* number - 1 and it meets the difficulty; such a step writes no block
\* storage, and what is persisted afterwards comes from known_blocks.  A
\* query stays pending after its resolver has accepted (C25), so several
\* pending queries can belong to one block: the step is the resolver of one
\* of them, and the three tests are those of that one.
C26_ResolverInsertsOnlyValidParent ==
    [][\A b \in ReceivedBlocks :
          (\E q \in QueryIds : ResolverInserts(q, b)) =>
              /\ \E q \in QueryIds :
                    /\ ResolverInserts(q, b)
                    /\ Hash(b) = resolvers[q].cur.parent_hash
                    /\ b.number = resolvers[q].cur.number - 1
              /\ HasDifficulty(b)
              /\ block_storage' = block_storage]_vars

\* The resolver has accepted a parent: the confirmation of the searched-for
\* block starts while the parent asked for is known and not yet confirmed.
C26_Witness ==
    \E q \in DictKeys(queries) :
        /\ rx.pc = "confirm"
        /\ rx.cur = rx.block
        /\ rx.block = resolvers[q].block
        /\ ~IsConfirmedBlock(Hash(rx.block))
        /\ resolvers[q].cur.parent_hash \in DictKeys(known_blocks)
        /\ ~IsConfirmedBlock(resolvers[q].cur.parent_hash)

\* ---- the block producer

\* The block _produce_block returned is in fork_manager.produce_block, after
\* which it is broadcast as bc:new_block.
Publishing == producer.pc \in {"confirm", "tip"}

\* C27: every block the producer publishes meets the difficulty, and its
\* number and parent hash are those of the latest state it was built from
\* (number = canonical height + 1, parent_hash = hash of the canonical tip);
\* and a pow loop that sees highest_block differ from the tip read at the
\* start of the cycle returns without publishing: no block is confirmed,
\* stored or broadcast by that step.
C27_ProducerPublishesOnTip ==
    /\ [](Publishing =>
            /\ HasDifficulty(producer.block)
            /\ producer.block.number = LatestNum + 1
            /\ producer.block.parent_hash = LoadState(LatestNum).block_hash
            /\ producer.block.parent_hash = StorageLoad(blocknum_storage, LatestNum))
    /\ [][(producer.pc = "mine" /\ producer'.pc = "start")
            => /\ highest_block # producer.tip_block
               /\ UNCHANGED <<forkVars, gossipOut>>]_vars

\* The producer publishes a block built on a canonical tip that a
\* reorganisation to a received branch has just written.
C27_Witness ==
    /\ Publishing
    /\ producer.block.number > 1
    /\ producer.block.parent_hash = Hash(RemoteBlock(LatestNum))

\* ---- capacity eviction

\* C28: when add_peer has inserted a new identifier and the table is over
\* peer_limit, the victim is one of the peers that were there before, so the
\* new peer is in the table when add_peer returns.
C28_NewPeerSurvivesEviction ==
    [][(receiver.pc = "check" /\ receiver'.pc = "idle" /\ receiver.cur \in Table)
          => receiver.cur \in peers'[LocalNode]]_vars

\* ---- gossip:send ingress

\* C29: the handler is invoked only for an identifier that is not known;
\* and whenever it is invoked, whatever it does, the identifier is known
\* afterwards and the message has been sent on to the current peers.
C29_IngressRecordsAndForwards ==
    [][\A m \in GossipMsgs :
          handler_calls'[LocalNode][Ident(m)] # handler_calls[LocalNode][Ident(m)]
              => /\ Ident(m) \notin known_messages[LocalNode]
                 /\ Ident(m) \in known_messages'[LocalNode]
                 /\ NetworkBroadcast(LocalNode, "gossip:send", m) \subseteq datagrams']_vars

(***************************************************************************)
(* SpecBroadcast: one call of P2PNetwork.broadcast on the thread that      *)
(* Gossip.broadcast starts for it, while the receive thread runs add_peer  *)
(* and the peer loop removes timed-out peers.  targets is the live view    *)
(* self.peers.values(); the for loop iterates the dict itself.  Each       *)
(* next() of a dict iterator first compares the size of the dict with the  *)
(* size at the creation of the iterator and raises RuntimeError            *)
(* ("dictionary changed size during iteration") when they differ.  When    *)
(* the dict was modified and has its old size again, the iterator walks    *)
(* the rebuilt entry table from its old index: it yields entries of the    *)
(* current dict and can end before it has yielded all of them.             *)
(***************************************************************************)
notBroadcast == <<known_messages, message_timeout, gossip_cleanup, handler_calls,
                  handler_returns, expiries, ingress, originated, searchVars,
                  chainVars, validatorVars, mempoolVars, registryVars, mp_calls>>

\* The gossip:send message the call sends.
BroadcastMsg == [kind |-> "other", data |-> "ok"]
SendTo(p) == [to |-> p, kind |-> "gossip:send", msg |-> BroadcastMsg]
\* The peers messaging.send has been called for.
Sent == {d.to : d \in datagrams}

\* What the broadcast thread has to find unchanged: stayed are the peers that
\* have been in the table since the call started.
Track ==
    bcast' = IF bcast.pc = "loop"
             THEN [bcast EXCEPT !.stayed = @ \cap peers'[LocalNode],
                                !.changed = @ \/ peers'[LocalNode] # Table]
             ELSE bcast

\* The test at the head of next(): the dict size is the one the iterator
\* was created with.
SizeChanged(used) == Cardinality(Table) # used

\* broadcast(message) up to the creation of the iterator.
BroadcastCall ==
    /\ bcast.pc = "idle"
    /\ bcast' = [pc |-> "loop", used |-> Cardinality(Table), stayed |-> Table,
                 changed |-> FALSE]
    /\ UNCHANGED <<now, peers, datagrams, peerVars, notBroadcast>>

\* One next() of the loop and, when it yields a peer, messaging.send.
BroadcastNext ==
    /\ bcast.pc = "loop"
    /\ IF SizeChanged(bcast.used)
       THEN /\ bcast' = [bcast EXCEPT !.pc = "dead"]
            /\ UNCHANGED datagrams
       ELSE \/ \E p \in Table \ Sent :
                 /\ datagrams' = datagrams \cup {SendTo(p)}
                 /\ UNCHANGED bcast
            \/ /\ Table \subseteq Sent \/ bcast.changed
               /\ bcast' = [bcast EXCEPT !.pc = "done"]
               /\ UNCHANGED datagrams
    /\ UNCHANGED <<now, peers, peerVars, notBroadcast>>

\* The receive thread and the peer loop while the call runs.
ConcurrentAnnounce(id) ==
    /\ receiver.pc = "idle" /\ receiver.left = 0
    /\ AddPeerInsert(id, 0)
    /\ Track
    /\ UNCHANGED <<now, peer_loop, evicted, datagrams, notBroadcast>>

ConcurrentAddPeerCheck ==
    /\ AddPeerCheckBody
    /\ Track
    /\ UNCHANGED <<now, last_seen, peer_loop, datagrams, notBroadcast>>

ConcurrentPeerLoopPass ==
    /\ PeerLoopPassBody
    /\ Track
    /\ UNCHANGED <<now, receiver, evicted, datagrams, notBroadcast>>

InitBroadcast == InitPeer

NextBroadcast ==
    \/ BroadcastCall
    \/ BroadcastNext
    \/ \E id \in PeerIdents : ConcurrentAnnounce(id)
    \/ ConcurrentAddPeerCheck
    \/ ConcurrentPeerLoopPass
    \/ Tick

SpecBroadcast == InitBroadcast /\ [][NextBroadcast]_vars

\* C30: the call completes without error, and when it has completed the
\* message has been sent to every peer that was in the table throughout the
\* call, whatever add_peer, the capacity eviction and the timeout eviction
\* did to the table meanwhile.
C30_BroadcastSurvivesTableChanges ==
    /\ bcast.pc # "dead"
    /\ bcast.pc = "done" => bcast.stayed \subseteq Sent

\* ---- the two dicts of the peering overlay

\* C31: whenever no add_peer call is in progress, last_seen and peers have
\* the same key set: no identifier has a last_seen entry without a peer
\* record.
C31_LastSeenMatchesPeers ==
    receiver.pc = "idle" => DictKeys(last_seen) = Table

\* ---- the canonical index

\* get_block_by_number(N) finds a block of number N whose parent is the
\* block that blocknum/<N-1> names.
IndexLinked(N) ==
    /\ StorageExists(blocknum_storage, N)
    /\ StorageExists(blocknum_storage, N - 1)
    /\ GetBlockByHash(StorageLoad(blocknum_storage, N)) # NoBlock
    /\ GetBlockByHash(StorageLoad(blocknum_storage, N)).number = N
    /\ GetBlockByHash(StorageLoad(blocknum_storage, N)).parent_hash
          = StorageLoad(blocknum_storage, N - 1)

\* C32: in every reachable storage state, between the writes of a
\* reorganisation included, the canonical index is a chain: for every N from
\* 1 to blocknum/latest, blocknum/<N> names a block of number N whose
\* parent_hash is the hash in blocknum/<N-1>.
C32_IndexIsChain == \A N \in 1..blocknum_latest : IndexLinked(N)

\* The index is a chain whenever update_canonical is not between the two
\* writes of one block.
IndexIsChainBetweenBlocks ==
    producer.pc # "save_latest" => C32_IndexIsChain

\* ---- balances

\* C33: a call of _apply_transaction on a state whose balances are all
\* non-negative leaves every balance >= 0, whatever integer the amount of
\* the transaction is.
C33_NoNegativeBalance ==
    (IsTxCall /\ \A item \in vpre.balances : item[2] >= 0)
        => \A item \in vstate.balances : item[2] >= 0

\* With amounts that are not negative no balance becomes negative.
NoNegativeBalanceForNaturalAmounts ==
    (IsTxCall /\ vcall.tx.amount >= 0) => \A item \in vstate.balances : item[2] >= 0

(***************************************************************************)
(* SpecRestart: the node of SpecChain, whose process can stop and start    *)
(* again.  The three storage namespaces are kept; BlockchainNode.__init__  *)
(* finds the key "latest" and creates no genesis, ForkManager.__init__     *)
(* starts with no known block, no confirmed block and highest_block =      *)
(* None, the canonicaliser reads latest_num and latest_hash back, and the  *)
(* gossip and search objects are new.  The node mines alone and hears its  *)
(* own stored blocks again from its peers.                                 *)
(***************************************************************************)
Restart ==
    /\ boot = "running"
    /\ known_blocks' = {}
    /\ confirmed_blocks' = {}
    /\ highest_block' = NoBlock
    /\ latest_num' = LatestNum
    /\ latest_hash' = StorageLoad(blocknum_storage, LatestNum)
    /\ rx' = RxIdle
    /\ producer' = ProducerAt("start")
    /\ queries' = {}
    /\ resolvers' = [q \in QueryIds |-> [cur |-> NoBlock, block |-> NoBlock]]
    /\ known_messages' = [known_messages EXCEPT ![LocalNode] = {}]
    /\ message_timeout' = [message_timeout EXCEPT ![LocalNode] = {}]
    /\ UNCHANGED <<boot, block_storage, blocknum_storage, blocknum_latest,
                   blockstate_storage, issued, response_calls, datagrams, notChain>>

\* A peer sends back, as bc:new_block, a block this node has stored.
ReceiveStored(b) ==
    /\ Hash(b) \in DictKeys(block_storage)
    /\ HandleNewBlock(Serialize(b))

NextRestart ==
    \/ CreateGenesis
    \/ ProducerStep
    \/ \E b \in StoredBlocks : ReceiveStored(b)
    \/ RxConfirm
    \/ RxSetTip
    \/ Restart

SpecRestart == InitChain /\ [][NextRestart]_vars

\* The highest block is a confirmed block of a valid chain whose number is
\* below the persisted canonical height.
TipBelowCanonical ==
    /\ highest_block # NoBlock
    /\ IsConfirmedBlock(Hash(highest_block))
    /\ ~InvalidTransition(highest_block)
    /\ ~BadAncestry(highest_block)
    /\ highest_block.number < LatestNum

\* C34: when highest_block is a valid confirmed block whose number is lower
\* than the persisted canonical height, update_canonical returns without
\* raising and leaves the canonical chain unchanged: the producer goes on to
\* build_block.
C34_LowerTipLeavesCanonical ==
    [][(producer.pc = "start" /\ producer' # producer /\ TipBelowCanonical)
          => /\ producer'.pc = "mine"
             /\ UNCHANGED canonVars]_vars

\* ---- blocks of number 0

\* C35: the only block of number 0 that is ever confirmed or persisted under
\* block/<hash> is the genesis block, and no other block of number 0 becomes
\* highest_block.
C35_OnlyGenesisAtZero ==
    /\ \A b \in StoredBlocks \cup {Deserialize(h) : h \in confirmed_blocks} :
          b.number = 0 => b = Genesis
    /\ highest_block.number = 0 => highest_block = Genesis

(***************************************************************************)
(* SpecMempoolRace: add_transaction on the receive thread (or on the       *)
(* thread of a local announce) and evict_transaction on the producer       *)
(* thread (build_block) or on the cleanup thread, statement by statement.  *)
(* Each method writes _transactions first and _last_seen second, and no    *)
(* lock is held.  mp_calls.add and mp_calls.evict hold the transaction of  *)
(* the call that is between its two statements, as a set of at most one.   *)
(***************************************************************************)
notMempoolRace == <<gossipVars, peers, peerVars, searchVars, chainVars, validatorVars,
                    registryVars, bcast>>

\* add_transaction(tx): self._transactions[tx.hash()] = tx.
AddStore(tx) ==
    /\ mp_calls.add = {}
    /\ mp_transactions' = IF tx \in Elements(mp_transactions) THEN mp_transactions
                          ELSE Append(mp_transactions, tx)
    /\ mp_calls' = [mp_calls EXCEPT !.add = {tx}]
    /\ UNCHANGED <<now, mp_last_seen, mp_cleanup, notMempoolRace>>

\* add_transaction(tx): self._last_seen[tx.hash()] = time.time().
AddStamp ==
    /\ mp_calls.add # {}
    /\ mp_last_seen' = DictSet(mp_last_seen, CHOOSE tx \in mp_calls.add : TRUE, now)
    /\ mp_calls' = [mp_calls EXCEPT !.add = {}]
    /\ UNCHANGED <<now, mp_transactions, mp_cleanup, notMempoolRace>>

\* evict_transaction(tx) for a transaction of the list get_transactions()
\* returned: self._transactions.pop(tx.hash(), None).
EvictPop(tx) ==
    /\ mp_calls.evict = {}
    /\ tx \in Elements(mp_transactions)
    /\ mp_transactions' = EvictFrom(mp_transactions, tx)
    /\ mp_calls' = [mp_calls EXCEPT !.evict = {tx}]
    /\ UNCHANGED <<now, mp_last_seen, mp_cleanup, notMempoolRace>>

\* evict_transaction(tx): self._last_seen.pop(tx.hash(), None).
EvictForget ==
    /\ mp_calls.evict # {}
    /\ mp_last_seen' = Forget(mp_last_seen, CHOOSE tx \in mp_calls.evict : TRUE)
    /\ mp_calls' = [mp_calls EXCEPT !.evict = {}]
    /\ UNCHANGED <<now, mp_transactions, mp_cleanup, notMempoolRace>>

InitMempoolRace == InitMempool

NextMempoolRace ==
    \/ \E tx \in MempoolTxs : AddStore(tx)
    \/ AddStamp
    \/ \E tx \in MempoolTxs : EvictPop(tx)
    \/ EvictForget
    \/ MempoolTick

SpecMempoolRace == InitMempoolRace /\ [][NextMempoolRace]_vars

\* C36: whenever no add_transaction and no evict_transaction call is in
\* progress, _transactions and _last_seen have the same key set.
C36_MempoolMapsInStep ==
    mp_calls = NoMempoolCall => Elements(mp_transactions) = DictKeys(mp_last_seen)

\* With every method of the Mempool run as one step the two key sets are
\* equal in every state.
MapsInStepWithoutInterleaving == Elements(mp_transactions) = DictKeys(mp_last_seen)

(***************************************************************************)
(* build_block followed by apply_block: the block built on a copy of the   *)
(* state S, mined, is applied to S.                                        *)
(***************************************************************************)
\* The mempools of these calls: up to two distinct transactions of any
\* sender, receiver, nonce, amount and signature outcome.
AgreePools ==
    {<<>>} \cup {<<tx>> : tx \in Txs}
           \cup {pair \in {<<tx, next>> : tx, next \in Txs} : pair[1] # pair[2]}

\* The pow loop of _produce_block gives the built block a nonce that meets
\* difficulty; apply_block is then called on it and on S.  The call keeps
\* the state build_block worked on beside its block.
ApplyBuilt ==
    /\ BlockBuilt
    /\ vcall' = [fn |-> "apply_block", block |-> Mined(vblock), working |-> vstate]
    /\ vstate' = ValidatorApplyBlock(Mined(vblock), vpre).state
    /\ vret' = ValidatorApplyBlock(Mined(vblock), vpre).ret
    /\ UNCHANGED <<now, gossipVars, peers, peerVars, searchVars, chainVars, vpre,
                   vblock, mempoolVars, extraVars>>

InitAgree ==
    /\ now = 0
    /\ InitGossipState
    /\ InitPeerState
    /\ InitSearchState
    /\ InitChainState
    /\ peers = [n \in Nodes |-> {}]
    /\ vpre \in BlockStates
    /\ vstate = vpre
    /\ vcall = NoCall
    /\ vret = "none"
    /\ vblock = NoFullBlock
    /\ mp_transactions \in AgreePools
    /\ mp_last_seen = {<<tx, 0>> : tx \in Elements(mp_transactions)}
    /\ mp_cleanup = [pc |-> "idle", now |-> 0]
    /\ InitExtraState
NextAgree ==
    \/ \E coinbase \in Addresses : CallBuildBlock(coinbase)
    \/ ApplyBuilt
SpecAgree == InitAgree /\ [][NextAgree]_vars

AppliedBuilt == vcall.fn = "apply_block"

\* C37: the block build_block returned for a copy of S and a mempool, given
\* a nonce that meets difficulty, is accepted by apply_block on S, and the
\* balances and nonces apply_block leaves are those of build_block's working
\* state with the block reward added to the coinbase (absent = 0).
C37_BuildApplyAgree ==
    AppliedBuilt =>
        /\ vret = "None"
        /\ \A a \in Addresses :
            /\ Get(vstate.balances, a) =
                   Get(vcall.working.balances, a)
                   + (IF a = vcall.block.coinbase THEN BlockReward ELSE 0)
            /\ Get(vstate.nonces, a) = Get(vcall.working.nonces, a)

\* A block of two transactions, the second valid only after the first, was
\* built from a mempool that lost nothing, and applied.
C37_Witness ==
    /\ AppliedBuilt
    /\ vret = "None"
    /\ Len(vcall.block.transactions) = 2
    /\ vcall.block.transactions[1].amount > 0
    /\ ~LedgerValid(vcall.block.transactions[2], LedgerOf(vpre))

(***************************************************************************)
(* A sequence of apply_block calls from the genesis state, as              *)
(* update_canonical makes them: each on the state the last accepted block  *)
(* left.                                                                   *)
(***************************************************************************)
\* The transactions of these blocks: amounts below and above zero.
SequenceTxs ==
    [sender : Addresses, receiver : Addresses, nonce : 0..MaxNonce,
     amount : {0 - 1, MaxAmount}, sig : {"valid"}]
SequenceLists ==
    {<<>>} \cup {<<tx>> : tx \in SequenceTxs}
           \cup {<<tx, next>> : tx, next \in SequenceTxs}

\* apply_block on the next block over the state S of the last accepted one.
\* An accepted block leaves the new S and adds its transactions to the ones
\* applied so far; a refused one leaves S as it was stored, vstate holding
\* what the call left of its argument, and its exception ends the thread
\* that makes these calls.
ApplyNext(coinbase, txs) ==
    /\ vret # "raise"
    /\ vpre.block_number < MaxBlocks
    /\ LET b == FullBlock(vpre.block_number + 1, LocalNonce, vpre.block_hash,
                          coinbase, txs)
           r == ValidatorApplyBlock(b, vpre)
       IN /\ vret' = r.ret
          /\ vstate' = r.state
          /\ vpre' = IF r.ret = "None" THEN r.state ELSE vpre
          /\ vcall' = [fn |-> "apply_block", block |-> b,
                       applied |-> IF r.ret = "None" THEN vcall.applied \o txs
                                   ELSE vcall.applied]
    /\ UNCHANGED <<now, gossipVars, peers, peerVars, searchVars, chainVars,
                   vblock, mempoolVars, extraVars>>

InitSequence ==
    /\ now = 0
    /\ InitGossipState
    /\ InitPeerState
    /\ InitSearchState
    /\ InitChainState
    /\ peers = [n \in Nodes |-> {}]
    /\ vpre = EmptyState
    /\ vstate = EmptyState
    /\ vcall = [fn |-> "none", block |-> NoFullBlock, applied |-> <<>>]
    /\ vret = "none"
    /\ vblock = NoFullBlock
    /\ InitMempoolState
    /\ InitExtraState
NextSequence == \E coinbase \in Addresses, txs \in SequenceLists : ApplyNext(coinbase, txs)
SpecSequence == InitSequence /\ [][NextSequence]_vars

\* The transactions of a sender among the ones applied so far.
AppliedOf(a) == SelectSeq(vcall.applied, LAMBDA tx : tx.sender = a)

\* C38: along a sequence of accepted blocks, nonces[sender] is the number of
\* the sender's transactions applied so far, the nonces of those grow by
\* one from 0, and a transaction of the sender whose nonce is at most one
\* already applied is rejected.
C38_AppliedAtMostOnce ==
    \A a \in Addresses :
        /\ Get(vpre.nonces, a) = Len(AppliedOf(a))
        /\ \A i \in 1..Len(AppliedOf(a)) : AppliedOf(a)[i].nonce = i - 1
        /\ \A tx \in Txs :
              (tx.sender = a /\ \E i \in 1..Len(AppliedOf(a)) :
                                    tx.nonce <= AppliedOf(a)[i].nonce)
                  => ApplyTransaction(tx, vpre).ret # "True"

\* A block that repeats a transaction of the block accepted before it has
\* been refused.
C38_Witness ==
    /\ vcall.fn = "apply_block"
    /\ vret = "raise"
    /\ vpre.block_number = 1
    /\ Len(vcall.block.transactions) = 1
    /\ vcall.block.transactions[1] \in Elements(vcall.applied)
    /\ Get(vpre.balances, vcall.block.transactions[1].sender)
           >= vcall.block.transactions[1].amount

\* The sum of the balances of a state.
RECURSIVE SumOver(_, _)
SumOver(d, keys) ==
    IF keys = {} THEN 0
    ELSE LET key == CHOOSE k \in keys : TRUE
         IN DictGet(d, key) + SumOver(d, keys \ {key})
TotalSupply(s) == SumOver(s.balances, DictKeys(s.balances))

\* C39: in every state reached by applying blocks 1..N to the genesis state
\* the sum of all balances is N x BLOCK_REWARD, whatever the transactions of
\* the blocks.
C39_SupplyConserved ==
    /\ TotalSupply(vpre) = vpre.block_number * BlockReward
    /\ vret = "None" => TotalSupply(vstate) = vstate.block_number * BlockReward

\* Two blocks are applied, with a transfer of a positive amount, a transfer
\* of a negative one and a transfer from an address to itself among them.
C39_Witness ==
    /\ vret = "None"
    /\ vpre.block_number = MaxBlocks
    /\ \E i \in 1..Len(vcall.applied) :
          vcall.applied[i].amount > 0 /\ vcall.applied[i].sender # vcall.applied[i].receiver
    /\ \E i \in 1..Len(vcall.applied) : vcall.applied[i].amount < 0
    /\ \E i \in 1..Len(vcall.applied) :
          vcall.applied[i].sender = vcall.applied[i].receiver

=============================================================================
